---- MODULE Spec2Model ----
(***************************************************************************)
(* A model of the planning core of gias: the parameter scoring and the     *)
(* action matcher (core/intent/action_matcher.py), the recursive planner   *)
(* (core/intent/planner.py), the action selector                           *)
(* (core/intent/action_selector.py), the orchestrator                      *)
(* IntentionalAgent.plan_intention (core/intentional_agent.py), and the    *)
(* calls to outside services: the reasoning service behind parse_intent,   *)
(* the decomposer and the scope gate, the retry loop of LLMClient          *)
(* (llm/client.py) and that of Neo4jBoltAdapter (kg/adapter_neo4j.py).     *)
(*                                                                         *)
(* Text is a sequence of symbols: the symbol " " is a whitespace           *)
(* character, every other symbol is one non-blank character (a word such   *)
(* as "booth" stands for one non-blank chunk that the code never splits).  *)
(* A Python value is a record [t, s, n]: a str, an int or None.            *)
(* A score is an exact fraction <<numerator, denominator>> in lowest       *)
(* terms; weights and thresholds are given in hundredths.                  *)
(***************************************************************************)
EXTENDS Integers, Sequences, FiniteSets, TLC

VARIABLES
    pc,         \* position of the request / call being modelled
    domain,     \* the DomainProfile in use
    slots,      \* slots handed to _score_params
    params,     \* parameter schema handed to _score_params
    scored,     \* result of _score_params
    kg,         \* the catalog: its actions and its vector index
    calls,      \* the match_actions (or select_actions) calls made so far, with results
    maxDepth,   \* max_depth of the RecursivePlanner.plan call
    nodes,      \* the plan tree under construction: nodes in creation order
    stack,      \* the active plan() frames: [node, subs] = the subs still to loop over
    dcalls,     \* the decomposer calls made so far: [node, depth, intent, answer]
    intention,  \* the text plan_intention is called with
    config,     \* agent_config: [enable_scope_gate, scope_gate_strict]
    subs,       \* the sub-intents break_down_intention returned
    unmatched,  \* intents of the sub-intents match_actions found nothing for
    matched,    \* matched_pairs: [intent, names] of the sub-intents with matches
    chosen,     \* chosen_actions: the selector's signature -> description entries
    allowed,    \* allowed_action_names
    invoked,    \* the stages plan_intention has called: selector, scope_gate, planner
    parsed,     \* what the sub-intent extraction (parse_intent) answered
    gate,       \* what the reasoning service answered to the scope gate
    trace,      \* the calls plan_intention made to its stages, in the order made
    result,     \* how plan_intention ended: what it returned, or that it raised
    svc,        \* the call to an outside service being made, and its settings
    attempts,   \* the requests that call has sent to the service so far, with their answers
    outcome     \* how that call ended: what it returned, or what it raised

scoreVars == <<slots, params, scored>>
matchVars == <<kg, calls>>
planVars == <<maxDepth, nodes, stack, dcalls>>
agentVars == <<intention, config, subs, unmatched, matched, chosen, allowed, invoked, parsed,
               gate, trace, result>>
serviceVars == <<svc, attempts, outcome>>
vars == <<pc, domain, slots, params, scored, kg, calls, maxDepth, nodes, stack, dcalls,
          intention, config, subs, unmatched, matched, chosen, allowed, invoked, parsed,
          gate, trace, result, svc, attempts, outcome>>

----------------------------------------------------------------------------
(* Bounds of the model *)

MaxParams == 2
MaxSlots == 2
MaxActions == 2
MaxDepth == 3
MaxSubs == 2
MaxNodes == 6

----------------------------------------------------------------------------
(* Python values *)

StrV(s) == [t |-> "str", s |-> s, n |-> 0]
IntV(n) == [t |-> "int", s |-> <<>>, n |-> n]
NoneV == [t |-> "none", s |-> <<>>, n |-> 0]

IsStr(v) == v.t = "str"
IsNone(v) == v.t = "none"

\* str(v)
PyStr(v) ==
    CASE v.t = "str" -> v.s
      [] v.t = "int" -> <<"7">>      \* the one int of the model is 7
      [] OTHER -> <<"None">>

----------------------------------------------------------------------------
(* Exact fractions *)

RECURSIVE Gcd(_, _)
Gcd(a, b) == IF b = 0 THEN a ELSE Gcd(b, a % b)

Rat(n, d) == LET g == Gcd(n, d) IN IF g = 0 THEN <<0, 1>> ELSE <<n \div g, d \div g>>
RatAdd(x, y) == Rat(x[1] * y[2] + y[1] * x[2], x[2] * y[2])
RatMul(x, y) == Rat(x[1] * y[1], x[2] * y[2])
RatLt(x, y) == x[1] * y[2] < y[1] * x[2]
RatZero == <<0, 1>>
RatOne == <<1, 1>>
Hundredths(n) == Rat(n, 100)
Tenths(n) == Rat(n, 10)

----------------------------------------------------------------------------
(* Text *)

RECURSIVE LStrip(_)
LStrip(s) == IF s # <<>> /\ Head(s) = " " THEN LStrip(Tail(s)) ELSE s

RECURSIVE RStrip(_)
RStrip(s) ==
    IF s # <<>> /\ s[Len(s)] = " " THEN RStrip(SubSeq(s, 1, Len(s) - 1)) ELSE s

\* str.strip()
Strip(s) == RStrip(LStrip(s))

\* re.sub(r"\s+", " ", t)
RECURSIVE CollapseBlanks(_)
CollapseBlanks(s) ==
    IF s = <<>> THEN <<>>
    ELSE IF Head(s) = " " /\ Len(s) > 1 /\ s[2] = " " THEN CollapseBlanks(Tail(s))
    ELSE <<Head(s)>> \o CollapseBlanks(Tail(s))

\* re.sub(pat, repl, t) for a rule whose pattern is one symbol
RECURSIVE Rewrite(_, _, _)
Rewrite(s, pat, repl) ==
    IF s = <<>> THEN <<>>
    ELSE (IF Head(s) = pat THEN repl ELSE <<Head(s)>>) \o Rewrite(Tail(s), pat, repl)

RECURSIVE ApplyRules(_, _)
ApplyRules(s, rules) ==
    IF rules = <<>> THEN s
    ELSE ApplyRules(Rewrite(s, Head(rules)[1], Head(rules)[2]), Tail(rules))

\* DomainProfile.normalize
Normalize(d, text) == ApplyRules(CollapseBlanks(Strip(text)), d.synonym_rules)

\* trig in text
IsSubstring(trig, text) ==
    \E i \in 1..(Len(text) - Len(trig) + 1) : SubSeq(text, i, i + Len(trig) - 1) = trig

\* StartsWithUnderscore finding no key to start with "_"
StartsWithUnderscoreNever(k) == FALSE

\* str.startswith("_")
StartsWithUnderscore(k) == k # <<>> /\ Head(k) = "_"

----------------------------------------------------------------------------
(* Domain profiles *)

KType == <<"target_type">>
KName == <<"target_name">>
KCount == <<"count">>

\* DomainProfile(): no rules, no aliases, no slot_map, no enum_alias
DefaultProfile ==
    [synonym_rules |-> <<>>,
     action_alias |-> [a \in {} |-> <<>>],
     slot_map |-> [k \in {} |-> <<>>],
     enum_alias |-> [k \in {} |-> <<>>]]

\* a plugged-in profile that uses every hook the matcher reads
ExpoProfile ==
    [synonym_rules |-> << <<"go", <<"goto">>>> >>,
     action_alias |-> [a \in {<<"a">>} |-> << <<"goto">>, <<"find">>, <<>> >>],
     slot_map |-> [k \in {KName} |-> << <<"name">> >>],
     enum_alias |-> [k \in {KType} |-> [v \in {<<"stand">>} |-> <<"booth">>]]]

Profiles == {DefaultProfile, ExpoProfile}

----------------------------------------------------------------------------
(* ScoringModel: ActionMatcher._alias_score, _get_slot_value, _score_params *)

RECURSIVE CountHits(_, _)
CountHits(aliases, text) ==
    IF aliases = <<>> THEN 0
    ELSE (IF Strip(Head(aliases)) # <<>> /\ IsSubstring(Strip(Head(aliases)), text)
          THEN 1 ELSE 0) + CountHits(Tail(aliases), text)

AliasesOf(d, action_name) ==
    IF action_name \in DOMAIN d.action_alias THEN d.action_alias[action_name] ELSE <<>>

\* min(1.0, hits * 0.25)
AliasScore(d, action_name, normalized_text) ==
    LET hits == CountHits(AliasesOf(d, action_name), normalized_text)
    IN  IF hits * 25 > 100 THEN RatOne ELSE Hundredths(hits * 25)

RECURSIVE FirstAlt(_, _)
FirstAlt(alts, sl) ==
    IF alts = <<>> THEN NoneV
    ELSE IF Head(alts) \in DOMAIN sl THEN sl[Head(alts)]
    ELSE FirstAlt(Tail(alts), sl)

GetSlotValue(d, sl, param_key) ==
    IF DOMAIN sl = {} THEN NoneV
    ELSE IF param_key \in DOMAIN sl THEN sl[param_key]
    ELSE IF param_key \in DOMAIN d.slot_map THEN FirstAlt(d.slot_map[param_key], sl)
    ELSE NoneV

\* v is None or (isinstance(v, str) and not v.strip())
Unresolved(v) == IsNone(v) \/ (IsStr(v) /\ Strip(v.s) = <<>>)

NormalizeEnumValue(d, v) == Strip(Normalize(d, PyStr(v)))

MapEnumAlias(d, param_key, norm_v) ==
    IF param_key \in DOMAIN d.enum_alias /\ norm_v \in DOMAIN d.enum_alias[param_key]
    THEN d.enum_alias[param_key][norm_v]
    ELSE norm_v

\* a usable parameter key: "if not key or not isinstance(key, str): continue"
KeyOk(p) == IsStr(p.key) /\ p.key.s # <<>>

\* (p.get("type") or "").strip().lower()
PType(p) ==
    CASE p.type = "ENUM " -> "enum"
      [] p.type = "None" -> ""
      [] OTHER -> p.type

Digits == {"7"}

\* float(v) succeeds
ParsesAsNumber(v) ==
    \/ v.t = "int"
    \/ /\ IsStr(v)
       /\ Strip(v.s) # <<>>
       /\ \A i \in 1..Len(Strip(v.s)) : Strip(v.s)[i] \in Digits

\* FirstMissingRequired looking at the first parameter of the schema only
FirstMissingRequiredHeadOnly(d, sl, ps, i) ==
    IF i = 1 /\ Len(ps) >= 1 /\ ps[1].required /\ KeyOk(ps[1])
             /\ Unresolved(GetSlotValue(d, sl, ps[1].key.s))
    THEN 1 ELSE 0

\* first required parameter with a usable key whose value is unresolved, 0 if none
RECURSIVE FirstMissingRequired(_, _, _, _)
FirstMissingRequired(d, sl, ps, i) ==
    IF i > Len(ps) THEN 0
    ELSE IF ps[i].required /\ KeyOk(ps[i]) /\ Unresolved(GetSlotValue(d, sl, ps[i].key.s))
    THEN i
    ELSE FirstMissingRequired(d, sl, ps, i + 1)

NoValue == NoneV

Evidence(key, ptype, required, filled, value, score, reason) ==
    [param |-> key, type |-> ptype, required |-> required, filled |-> filled,
     value |-> value, score |-> score, reason |-> reason]

\* ReasonScore with a present string given the credit of an enum match
ReasonScoreStringFull(reason) ==
    CASE reason = "enum_match" -> 10
      [] reason = "string_present" -> 10
      [] reason = "number_parse_ok" -> 7
      [] reason = "unknown_type" -> 5
      [] OTHER -> 0

\* the score, in tenths, that each scoring decision earns
ReasonScore(reason) ==
    CASE reason = "enum_match" -> 10
      [] reason = "string_present" -> 8
      [] reason = "number_parse_ok" -> 7
      [] reason = "unknown_type" -> 5
      [] OTHER -> 0

\* the decision taken for a resolved value v of parameter p
ScoreReason(d, p, v) ==
    IF PType(p) = "enum"
    THEN (IF MapEnumAlias(d, p.key.s, NormalizeEnumValue(d, v)) \in p.enum
          THEN "enum_match" ELSE "enum_mismatch")
    ELSE IF PType(p) = "string"
    THEN (IF Strip(PyStr(v)) # <<>> THEN "string_present" ELSE "string_empty")
    ELSE IF PType(p) \in {"int", "integer", "number", "float"}
    THEN (IF ParsesAsNumber(v) THEN "number_parse_ok" ELSE "number_parse_fail")
    ELSE "unknown_type"

\* BindingOf binding the mapped value of an enum parameter whether it matches or not
BindingOfMappedAlways(p, v, mapped_v) == IF PType(p) = "enum" THEN StrV(mapped_v) ELSE v

\* bindings[key] for a resolved value whose alias-mapped form is mapped_v
BindingOf(p, v, mapped_v) ==
    IF PType(p) = "enum" /\ mapped_v \in p.enum THEN StrV(mapped_v) ELSE v

Binding(d, p, v) == BindingOf(p, v, MapEnumAlias(d, p.key.s, NormalizeEnumValue(d, v)))

\* what a resolved parameter adds: its weight, score, binding and evidence entry
ScoredEntry(p, v, reason, binding) ==
    [w |-> IF p.required THEN 2 ELSE 1, score |-> ReasonScore(reason), bound |-> TRUE,
     binding |-> binding,
     ev |-> Evidence(p.key.s, PType(p), p.required, TRUE, v, ReasonScore(reason), reason)]

\* SkippedEntry counting the parameter's weight with score 0
SkippedEntryWeighted(p) ==
    [w |-> 1, score |-> 0, bound |-> FALSE, binding |-> NoValue,
     ev |-> Evidence(p.key.s, PType(p), p.required, FALSE, NoValue, 0, "optional_missing")]

\* what an unresolved (optional) parameter adds: nothing but its evidence entry
SkippedEntry(p) ==
    [w |-> 0, score |-> 0, bound |-> FALSE, binding |-> NoValue,
     ev |-> Evidence(p.key.s, PType(p), p.required, FALSE, NoValue, 0, "optional_missing")]

ScoreValue(d, p, v) ==
    IF Unresolved(v) THEN SkippedEntry(p)
    ELSE ScoredEntry(p, v, ScoreReason(d, p, v), Binding(d, p, v))

\* one iteration of the scoring loop
ScoreOne(d, sl, p) == ScoreValue(d, p, GetSlotValue(d, sl, p.key.s))

\* the accumulators after one scored parameter
Accumulate(acc, key, r) ==
    [total |-> acc.total + r.w * r.score,
     total_w |-> acc.total_w + r.w,
     bindings |-> IF r.bound
                  THEN [k \in DOMAIN acc.bindings \cup {key} |->
                            IF k = key THEN r.binding ELSE acc.bindings[k]]
                  ELSE acc.bindings,
     ev |-> Append(acc.ev, r.ev)]

\* the scoring loop from parameter i on, accumulating [total, total_w, bindings, ev]
RECURSIVE ScoreLoop(_, _, _, _, _)
ScoreLoop(d, sl, ps, i, acc) ==
    IF i > Len(ps) THEN acc
    ELSE IF ~KeyOk(ps[i]) THEN ScoreLoop(d, sl, ps, i + 1, acc)
    ELSE ScoreLoop(d, sl, ps, i + 1, Accumulate(acc, ps[i].key.s, ScoreOne(d, sl, ps[i])))

EmptyBindings == [k \in {} |-> NoneV]

\* the result when required parameter miss is unresolved: nothing else is scored
Unfillable(ps, miss) ==
    [fillable |-> FALSE, bindings |-> EmptyBindings, param_score |-> RatZero,
     evidence |-> <<Evidence(ps[miss].key.s, "", TRUE, FALSE, NoValue, 0, "required_missing")>>]

\* the result of the scoring loop: total / total_w
Fillable(acc) ==
    [fillable |-> TRUE, bindings |-> acc.bindings,
     param_score |-> IF acc.total_w > 0 THEN Rat(acc.total, 10 * acc.total_w) ELSE RatZero,
     evidence |-> acc.ev]

ScoreResult(d, sl, ps, miss) ==
    IF miss # 0 THEN Unfillable(ps, miss)
    ELSE Fillable(ScoreLoop(d, sl, ps, 1,
                            [total |-> 0, total_w |-> 0, bindings |-> EmptyBindings,
                             ev |-> <<>>]))

\* ActionMatcher._score_params
ScoreParams(d, sl, ps) == ScoreResult(d, sl, ps, FirstMissingRequired(d, sl, ps, 1))

----------------------------------------------------------------------------
(* The catalog: ActionStore over the graph adapter *)

\* len(q_vec): the dimensionality of the embedding service
EmbedDim == 2

\* rows of the index for a query vector of dimensionality qdim, best first:
\* CALL db.index.vector.queryNodes(index, top_k, vector) ... WHERE score >= min_score
\* ORDER BY score DESC.  The query fails when the index is missing, is still
\* populating, or has another dimensionality than the vector.
IndexUsable(k, qdim) == k.index.exists /\ k.index.online /\ k.index.dim = qdim

Indexed(k) == {i \in 1..Len(k.actions) : k.dataDim = k.index.dim}

\* the similarity of an action's description to the embedded query text
SimOf(act, text) == IF text \in DOMAIN act.sim THEN act.sim[text] ELSE 0

\* position of action i among the indexed actions, by score descending
\* (equal scores keep the catalog's order)
Rank(k, text, i) ==
    Cardinality({j \in Indexed(k) :
        \/ SimOf(k.actions[j], text) > SimOf(k.actions[i], text)
        \/ (SimOf(k.actions[j], text) = SimOf(k.actions[i], text) /\ j < i)}) + 1

RowOf(act, text) ==
    [name |-> act.name, description |-> act.description, score |-> SimOf(act, text)]

RECURSIVE RowsFrom(_, _, _, _, _)
RowsFrom(k, text, r, top_k, min_score) ==
    IF r > top_k \/ r > Cardinality(Indexed(k)) THEN <<>>
    ELSE LET i == CHOOSE j \in Indexed(k) : Rank(k, text, j) = r
         IN  (IF SimOf(k.actions[i], text) >= min_score
              THEN <<RowOf(k.actions[i], text)>> ELSE <<>>)
             \o RowsFrom(k, text, r + 1, top_k, min_score)

\* ActionStore.search_actions_by_vector for the embedding of text: the adapter's
\* vector_query_nodes, then the direct query; every error of either is swallowed
SearchActionsByVector(k, text, qdim, top_k, min_score, fault) ==
    LET primaryOk == fault \notin {"search_primary", "search_all"} /\ IndexUsable(k, qdim)
        primary == IF top_k <= 0 THEN <<>>
                   ELSE IF primaryOk THEN RowsFrom(k, text, 1, top_k, min_score)
                   ELSE <<>>
        secondOk == fault # "search_all" /\ IndexUsable(k, qdim) /\ top_k > 0
    IN  IF primary # <<>> THEN primary
        ELSE IF secondOk THEN RowsFrom(k, text, 1, top_k, min_score)
        ELSE <<>>

\* ActionStore.get_action_params: the schema rows of the action of that name
RECURSIVE SchemaOf(_, _, _)
SchemaOf(k, action_name, i) ==
    IF i > Len(k.actions) THEN <<>>
    ELSE IF k.actions[i].name = action_name THEN k.actions[i].schema
    ELSE SchemaOf(k, action_name, i + 1)

GetActionParams(k, action_name) == SchemaOf(k, action_name, 1)

\* ActionStore.ensure_action_desc_index: [index, ops], ops = the DROP / CREATE issued
EnsureActionDescIndex(k, dimensions, fault) ==
    LET idx == k.index
        existing_dim == IF idx.readable THEN idx.dim ELSE 0   \* 0: not determinable
        need_recreate == idx.exists /\ (~idx.readable \/ existing_dim # dimensions)
        create == need_recreate \/ ~idx.exists
        ops == (IF need_recreate THEN <<"DROP">> ELSE <<>>)
               \o (IF create THEN <<"CREATE">> ELSE <<>>)
        \* _await_index_online: a failed wait ends silently after its polling loop
        online == IF create THEN fault # "await" ELSE (idx.online \/ fault # "await")
    IN  [index |-> [exists |-> TRUE,
                    dim |-> IF create THEN dimensions ELSE idx.dim,
                    readable |-> idx.readable,
                    online |-> online],
         ops |-> ops]

----------------------------------------------------------------------------
(* ActionMatch and ActionMatcher.match_actions *)

\* FromBase with the two weights applied to the wrong scores
FromBaseSwapped(action, base_score, param_score, fillable, bindings, w_base, w_param, thresholds, reject_reason, evidence) ==
    [action |-> action,
     score |-> RatAdd(RatMul(Hundredths(w_param), base_score),
                      RatMul(Hundredths(w_base), param_score)),
     base_score |-> base_score, param_score |-> param_score,
     final_score |-> RatAdd(RatMul(Hundredths(w_param), base_score),
                            RatMul(Hundredths(w_base), param_score)),
     fillable |-> fillable, bindings |-> bindings, thresholds |-> thresholds,
     reject_reason |-> reject_reason, evidence |-> evidence]

\* ActionMatch.from_base
FromBase(action, base_score, param_score, fillable, bindings, w_base, w_param, thresholds, reject_reason, evidence) ==
    LET final == RatAdd(RatMul(Hundredths(w_base), base_score),
                        RatMul(Hundredths(w_param), param_score))
    IN  [action |-> action, score |-> final, base_score |-> base_score,
         param_score |-> param_score, final_score |-> final, fillable |-> fillable,
         bindings |-> bindings, thresholds |-> thresholds,
         reject_reason |-> reject_reason, evidence |-> evidence]

\* EffectiveSlots keeping every key
EffectiveSlotsAll(sl) == sl

\* the slots that count: keys not starting with "_"
EffectiveSlots(sl) == [k \in {x \in DOMAIN sl : ~StartsWithUnderscore(x)} |-> sl[k]]

\* r.get("name") or "UnnamedAction"
RowName(r) == IF r.name = <<>> THEN <<"UnnamedAction">> ELSE r.name

\* (1 - alias_weight) * vec_score + alias_weight * a_score
BaseScore(alias_weight, vec_score, a_score) ==
    RatAdd(RatMul(Hundredths(100 - alias_weight), vec_score),
           RatMul(Hundredths(alias_weight), a_score))

\* RejectReason without the test of final_score
RejectReasonNoFinal(should_gate, fillable, param_score, final_score, a) ==
    IF ~should_gate THEN ""
    ELSE IF ~fillable THEN "required_params_missing"
    ELSE IF RatLt(param_score, Hundredths(a.min_param_score)) THEN "param_score_below_threshold"
    ELSE ""

\* the gate of one candidate: its reject_reason, "" when it passes
RejectReason(should_gate, fillable, param_score, final_score, a) ==
    IF ~should_gate THEN ""
    ELSE IF ~fillable THEN "required_params_missing"
    ELSE IF RatLt(param_score, Hundredths(a.min_param_score)) THEN "param_score_below_threshold"
    ELSE IF RatLt(final_score, Hundredths(a.min_final_score)) THEN "final_score_below_threshold"
    ELSE ""

\* the schema the loop works with: fetched only when effective slots exist, and
\* empty when the lookup raises
ParamsSchema(k, a, action_name, fault) ==
    IF DOMAIN EffectiveSlots(a.slots) # {} /\ fault # "params"
    THEN GetActionParams(k, action_name) ELSE <<>>

\* fillable, bindings, param_score and param_ev of one candidate
Scoring(d, a, params_schema) ==
    IF DOMAIN EffectiveSlots(a.slots) = {}
    THEN [fillable |-> TRUE, bindings |-> EmptyBindings, param_score |-> RatZero,
          evidence |-> <<>>]
    ELSE IF params_schema = <<>>
    THEN [fillable |-> TRUE, bindings |-> EmptyBindings, param_score |-> RatZero,
          evidence |-> <<Evidence(<<>>, "", FALSE, FALSE, NoValue, 0,
                                  "params_schema_unavailable")>>]
    ELSE ScoreParams(d, EffectiveSlots(a.slots), params_schema)

\* w_base * base_score + w_param * param_score
FinalScore(a, base_score, param_score) ==
    RatAdd(RatMul(Hundredths(a.w_base), base_score),
           RatMul(Hundredths(a.w_param), param_score))

\* ShouldGate without the test of the schema
ShouldGateWithoutSchema(a, params_schema) ==
    DOMAIN EffectiveSlots(a.slots) # {} /\ a.enable_param_gate

\* use_slots and enable_param_gate and params_schema
ShouldGate(a, params_schema) ==
    DOMAIN EffectiveSlots(a.slots) # {} /\ a.enable_param_gate /\ params_schema # <<>>

EvidenceOf(a, vec_score, a_score, base_score, scoring, final_score, params_schema) ==
    [vector_score |-> vec_score, alias_score |-> a_score, alias_weight |-> a.alias_weight,
     base_score |-> base_score, param_score |-> scoring.param_score,
     final_score |-> final_score, slots_used |-> DOMAIN EffectiveSlots(a.slots) # {},
     param_evidence |-> scoring.evidence, w_base |-> a.w_base, w_param |-> a.w_param,
     param_gate_enabled |-> ShouldGate(a, params_schema),
     params_schema_available |-> params_schema # <<>>]

\* the candidate with its gate decided: [kept, fillable, name, match]
Candidate(a, r, vec_score, a_score, base_score, scoring, final_score, params_schema, reject_reason) ==
    [kept |-> reject_reason = "",
     fillable |-> scoring.fillable,
     name |-> RowName(r),
     match |-> FromBase([name |-> RowName(r), description |-> r.description],
                        base_score, scoring.param_score, scoring.fillable,
                        scoring.bindings, a.w_base, a.w_param,
                        [param |-> a.min_param_score, final |-> a.min_final_score],
                        reject_reason,
                        EvidenceOf(a, vec_score, a_score, base_score, scoring, final_score,
                                   params_schema))]

Gated(a, r, vec_score, a_score, base_score, scoring, final_score, params_schema) ==
    Candidate(a, r, vec_score, a_score, base_score, scoring, final_score, params_schema,
              RejectReason(ShouldGate(a, params_schema), scoring.fillable,
                           scoring.param_score, final_score, a))

Scored(a, r, vec_score, a_score, base_score, scoring, params_schema) ==
    Gated(a, r, vec_score, a_score, base_score, scoring,
          FinalScore(a, base_score, scoring.param_score), params_schema)

WithSchema(d, a, r, a_score, params_schema) ==
    Scored(a, r, Hundredths(r.score), a_score,
           BaseScore(a.alias_weight, Hundredths(r.score), a_score),
           Scoring(d, a, params_schema), params_schema)

\* one iteration of the loop over rows: [kept, fillable, name, match]
MatchRow(d, k, a, norm_intent, r, fault) ==
    WithSchema(d, a, r, AliasScore(d, RowName(r), norm_intent),
               ParamsSchema(k, a, RowName(r), fault))

\* KeepIfKept without the "continue" of a rejected candidate
KeepAlways(m) == <<m.match>>

\* the candidates that pass their gate, in the order of the rows
KeepIfKept(m) == IF m.kept THEN <<m.match>> ELSE <<>>

RECURSIVE MatchRows(_, _, _, _, _, _)
MatchRows(d, k, a, norm_intent, rows, fault) ==
    IF rows = <<>> THEN <<>>
    ELSE KeepIfKept(MatchRow(d, k, a, norm_intent, Head(rows), fault))
         \o MatchRows(d, k, a, norm_intent, Tail(rows), fault)

\* SortByFinal leaving the list in the order of the rows
SortKeepsOrder(ms) == ms

\* list.sort(key=final_score, reverse=True): stable, equal keys keep their order
RECURSIVE InsertByFinal(_, _)
InsertByFinal(m, sorted) ==
    IF sorted = <<>> THEN <<m>>
    ELSE IF RatLt(Head(sorted).final_score, m.final_score)
    THEN <<m>> \o sorted
    ELSE <<Head(sorted)>> \o InsertByFinal(m, Tail(sorted))

RECURSIVE SortByFinal(_)
SortByFinal(ms) ==
    IF ms = <<>> THEN <<>>
    ELSE InsertByFinal(ms[Len(ms)], SortByFinal(SubSeq(ms, 1, Len(ms) - 1)))

Raised(k) ==
    [raised |-> TRUE, matches |-> <<>>, index |-> k.index, ops |-> <<>>,
     searches |-> <<>>, rows |-> <<>>, lookups |-> <<>>]

\* the get_action_params calls of the loop: one per row, "if use_slots"
Lookups(a, rows) ==
    IF DOMAIN EffectiveSlots(a.slots) # {} THEN [i \in 1..Len(rows) |-> RowName(rows[i])]
    ELSE <<>>

\* the loop over the rows found, and the final sort
Returned(d, k, a, norm_intent, ens, searches, rows, fault) ==
    [raised |-> FALSE,
     matches |-> SortByFinal(MatchRows(d, k, a, norm_intent, rows, fault)),
     index |-> ens.index, ops |-> ens.ops, searches |-> searches, rows |-> rows,
     lookups |-> Lookups(a, rows)]

\* one search_actions_by_vector call of match_actions, and the rows it returned
SearchCall(vector, top_k, min_score, rows) ==
    [vector |-> vector, top_k |-> top_k, min_score |-> min_score, rows |-> rows]

\* the call after its second search, which returned rows2
SearchedAgain(d, k, a, norm_intent, ens, rows1, rows2, fault) ==
    Returned(d, k, a, norm_intent, ens,
             <<SearchCall(norm_intent, a.top_k, a.min_score, rows1),
               SearchCall(norm_intent, a.top_k, 0, rows2)>>,
             rows2, fault)

\* Searched with the second search made whatever allow_fallback says
SearchedRetriesAlways(d, k, a, norm_intent, ens, rows1, fault) ==
    IF rows1 = <<>>
    THEN SearchedAgain(d, k, a, norm_intent, ens, rows1,
                       SearchActionsByVector(k, norm_intent, EmbedDim, a.top_k, 0, fault),
                       fault)
    ELSE Returned(d, k, a, norm_intent, ens,
                  <<SearchCall(norm_intent, a.top_k, a.min_score, rows1)>>, rows1, fault)

\* "if (not rows) and allow_fallback": the second search, with similarity floor 0
Searched(d, k, a, norm_intent, ens, rows1, fault) ==
    IF rows1 = <<>> /\ a.allow_fallback
    THEN SearchedAgain(d, k, a, norm_intent, ens, rows1,
                       SearchActionsByVector(k, norm_intent, EmbedDim, a.top_k, 0, fault),
                       fault)
    ELSE Returned(d, k, a, norm_intent, ens,
                  <<SearchCall(norm_intent, a.top_k, a.min_score, rows1)>>, rows1, fault)

\* Ensured with the searches run against the index as it was before it was ensured
EnsuredStale(d, k, a, norm_intent, ens, fault) ==
    Searched(d, k, a, norm_intent, ens,
             SearchActionsByVector(k, norm_intent, EmbedDim, a.top_k, a.min_score, fault),
             fault)

\* the first search, against the catalog as ensure_action_desc_index left it
Ensured(d, k, a, norm_intent, ens, fault) ==
    Searched(d, [k EXCEPT !.index = ens.index], a, norm_intent, ens,
             SearchActionsByVector([k EXCEPT !.index = ens.index], norm_intent, EmbedDim,
                                   a.top_k, a.min_score, fault),
             fault)

\* ActionMatcher.match_actions, as one call against catalog k under one fault of the
\* collaborators: [raised, matches, index, ops, searches, rows, lookups]
MatchActions(d, k, a, fault) ==
    IF fault \in {"embed", "index"} THEN Raised(k)
    ELSE Ensured(d, k, a, Normalize(d, a.intention),
                 EnsureActionDescIndex(k, EmbedDim, fault), fault)

----------------------------------------------------------------------------
(* RecursivePlanner.plan *)

\* planner.py:8, the default max_depth, which plan_intention uses
DefaultMaxDepth == 4

\* current_node as plan() creates it
NewNode(id, intent, depth, scheduled_start, parent) ==
    [id |-> id, intent |-> intent, depth |-> depth, scheduled_start |-> scheduled_start,
     type |-> "composite", is_atomic |-> FALSE, atomic_source |-> "", action |-> NoneV,
     error |-> "", execution_logic |-> <<>>, parent |-> parent]

\* AtomicChild at its parent's depth
AtomicChildSameDepth(sub, depth, parent) ==
    [id |-> sub.id, intent |-> sub.intent, depth |-> depth,
     scheduled_start |-> sub.scheduled_start, type |-> "atomic", is_atomic |-> TRUE,
     atomic_source |-> sub.atomic_source, action |-> sub.action,
     error |-> "", execution_logic |-> <<>>, parent |-> parent]

\* the child a sub-intent marked atomic becomes
AtomicChild(sub, depth, parent) ==
    [id |-> sub.id, intent |-> sub.intent, depth |-> depth + 1,
     scheduled_start |-> sub.scheduled_start, type |-> "atomic", is_atomic |-> TRUE,
     atomic_source |-> sub.atomic_source, action |-> sub.action,
     error |-> "", execution_logic |-> <<>>, parent |-> parent]

\* AtCeiling with the comparison off by one
AtCeilingLate(depth, max_depth) == depth > max_depth

\* depth >= max_depth
AtCeiling(depth, max_depth) == depth >= max_depth

\* result_json = self.decomposer.decompose(intent, available_actions), for node
DecomposeCall(node, depth, intent, resp) ==
    [node |-> node, depth |-> depth, intent |-> intent, answer |-> resp]

\* EnteredNode taking a failed decomposition for one without sub-intents
EnteredNodeFailureAsLeaf(id, intent, depth, scheduled_start, parent, max_depth, resp) ==
    LET n == NewNode(id, intent, depth, scheduled_start, parent)
    IN  IF AtCeiling(depth, max_depth)
        THEN [n EXCEPT !.type = "leaf_forced_atomic", !.is_atomic = TRUE,
                       !.atomic_source = "new_generated"]
        ELSE IF resp.sub_intents = <<>>
        THEN [n EXCEPT !.type = "leaf_no_children", !.is_atomic = TRUE,
                       !.execution_logic = resp.relationships]
        ELSE [n EXCEPT !.execution_logic = resp.relationships]

\* the node of a plan() call that ends before its loop, or the composite it starts as;
\* resp is the decomposer's answer: "failed" (None), or [sub_intents, relationships]
EnteredNode(id, intent, depth, scheduled_start, parent, max_depth, resp) ==
    LET n == NewNode(id, intent, depth, scheduled_start, parent)
    IN  IF AtCeiling(depth, max_depth)
        THEN [n EXCEPT !.type = "leaf_forced_atomic", !.is_atomic = TRUE,
                       !.atomic_source = "new_generated"]
        ELSE IF resp.failed
        THEN [n EXCEPT !.error = "Decomposition failed"]
        ELSE IF resp.sub_intents = <<>>
        THEN [n EXCEPT !.type = "leaf_no_children", !.is_atomic = TRUE,
                       !.execution_logic = resp.relationships]
        ELSE [n EXCEPT !.execution_logic = resp.relationships]

\* PlanEnter with the decomposer called before the depth is looked at
PlanEnterCallsFirst(ns, st, dc, id, intent, depth, scheduled_start, parent, max_depth, resp) ==
    [nodes |-> Append(ns, EnteredNode(id, intent, depth, scheduled_start, parent,
                                      max_depth, resp)),
     stack |-> IF ~AtCeiling(depth, max_depth) /\ ~resp.failed /\ resp.sub_intents # <<>>
               THEN <<[node |-> Len(ns) + 1, subs |-> resp.sub_intents]>> \o st
               ELSE st,
     dcalls |-> Append(dc, DecomposeCall(Len(ns) + 1, depth, intent, resp))]

\* plan() entered for a node: the node is created; below the ceiling the decomposer
\* is called once, and a frame is pushed when there are sub-intents to loop over
PlanEnter(ns, st, dc, id, intent, depth, scheduled_start, parent, max_depth, resp) ==
    LET n == EnteredNode(id, intent, depth, scheduled_start, parent, max_depth, resp)
        called == ~AtCeiling(depth, max_depth)
        loops == called /\ ~resp.failed /\ resp.sub_intents # <<>>
    IN  [nodes |-> Append(ns, n),
         stack |-> IF loops
                   THEN <<[node |-> Len(ns) + 1, subs |-> resp.sub_intents]>> \o st
                   ELSE st,
         dcalls |-> IF called
                    THEN Append(dc, DecomposeCall(Len(ns) + 1, depth, intent, resp))
                    ELSE dc]

\* PlanLoop planning a non-atomic sub-intent without its scheduled start
PlanLoopDropsSchedule(ns, st, dc, max_depth, resp) ==
    LET f == Head(st)
        sub == Head(f.subs)
        depth == ns[f.node].depth
        rest == IF Tail(f.subs) = <<>> THEN Tail(st)
                ELSE <<[f EXCEPT !.subs = Tail(f.subs)]>> \o Tail(st)
    IN  IF sub.is_atomic
        THEN [nodes |-> Append(ns, AtomicChild(sub, depth, f.node)),
              stack |-> rest, dcalls |-> dc]
        ELSE PlanEnter(ns, rest, dc, sub.id, sub.intent, depth + 1, <<"N/A">>,
                       f.node, max_depth, resp)

\* PlanLoop never done with a non-atomic sub-intent: it plans it again and again
PlanLoopRepeatsSub(ns, st, dc, max_depth, resp) ==
    LET f == Head(st)
        sub == Head(f.subs)
        depth == ns[f.node].depth
        rest == IF Tail(f.subs) = <<>> THEN Tail(st)
                ELSE <<[f EXCEPT !.subs = Tail(f.subs)]>> \o Tail(st)
    IN  IF sub.is_atomic
        THEN [nodes |-> Append(ns, AtomicChild(sub, depth, f.node)),
              stack |-> rest, dcalls |-> dc]
        ELSE PlanEnter(ns, st, dc, sub.id, sub.intent, depth + 1, sub.scheduled_start,
                       f.node, max_depth, resp)

\* one iteration of "for sub in sub_intents" in the innermost active frame; a frame
\* whose loop is finished returns
PlanLoop(ns, st, dc, max_depth, resp) ==
    LET f == Head(st)
        sub == Head(f.subs)
        depth == ns[f.node].depth
        rest == IF Tail(f.subs) = <<>> THEN Tail(st)
                ELSE <<[f EXCEPT !.subs = Tail(f.subs)]>> \o Tail(st)
    IN  IF sub.is_atomic
        THEN [nodes |-> Append(ns, AtomicChild(sub, depth, f.node)),
              stack |-> rest, dcalls |-> dc]
        ELSE PlanEnter(ns, rest, dc, sub.id, sub.intent, depth + 1, sub.scheduled_start,
                       f.node, max_depth, resp)

\* what the tree built so far and the pending sub-intents will hold at least
RECURSIVE PendingSubs(_)
PendingSubs(st) == IF st = <<>> THEN 0 ELSE Len(Head(st).subs) + PendingSubs(Tail(st))

Children(ns, i) == {j \in 1..Len(ns) : ns[j].parent = i}

\* sub_plans of node i: its children, in the order they were appended
SubPlans(ns, i) == SelectSeq([j \in 1..Len(ns) |-> j], LAMBDA j : ns[j].parent = i)

----------------------------------------------------------------------------
(* The decomposer's answers *)

Failed == [failed |-> TRUE, sub_intents |-> <<>>, relationships |-> <<>>]

SubIntentOut(id, intent, action, is_atomic, atomic_source, scheduled_start) ==
    [id |-> id, intent |-> intent, action |-> action, is_atomic |-> is_atomic,
     atomic_source |-> atomic_source, scheduled_start |-> scheduled_start]

\* the sub-intents an answer is built from; position i gives the id
SubKinds == {"pre_defined", "new_generated", "composite", "blank", "untyped"}

SubOfKind(kind, i) ==
    LET id == IF i = 1 THEN <<"1">> ELSE IF i = 2 THEN <<"2">> ELSE <<"3">>
    IN  CASE kind = "pre_defined" ->
               SubIntentOut(id, <<"go">>, StrV(<<"a", "(", ")">>), TRUE, "pre_defined",
                            <<"T+5">>)
          [] kind = "new_generated" ->
               SubIntentOut(id, <<"fix">>, StrV(<<" ", "c", " ", "(", "x", ")">>), TRUE,
                            "new_generated", <<>>)
          [] kind = "blank" ->
               SubIntentOut(id, <<"wait">>, StrV(<<>>), TRUE, "new_generated", <<>>)
          [] kind = "untyped" ->
               SubIntentOut(id, <<"ask">>, NoneV, TRUE, "new_generated", <<>>)
          [] OTHER ->
               SubIntentOut(id, <<"tour">>, StrV(<<>>), FALSE, "", <<"T+9">>)

\* relationships: one Sequence edge between the first two sub-intents
RelationsOf(n) ==
    IF n >= 2 THEN <<[type |-> "Sequence", from_id |-> <<"1">>, to_id |-> <<"2">>]>> ELSE <<>>

AnswerOf(kinds) ==
    [failed |-> FALSE,
     sub_intents |-> [i \in 1..Len(kinds) |-> SubOfKind(kinds[i], i)],
     relationships |-> RelationsOf(Len(kinds))]

PlanAnswers ==
    {Failed} \cup {AnswerOf(ks) : ks \in UNION {[1..n -> SubKinds] : n \in 0..MaxSubs}}

----------------------------------------------------------------------------
(* Inputs *)

EnumValues == {<<"exhibit_zone">>, <<"booth">>, <<"exhibit">>}

Param(key, type, required) ==
    [key |-> key, type |-> type, required |-> required,
     enum |-> IF type \in {"enum", "ENUM "} THEN EnumValues ELSE {}]

ParamKeys == <<KType, KName, KCount>>
KeyRank(key) == IF IsStr(key) THEN CHOOSE i \in 1..Len(ParamKeys) : ParamKeys[i] = key.s
                ELSE Len(ParamKeys) + 1

ParamChoices ==
    {Param(StrV(ParamKeys[i]), t, r) :
        i \in 1..Len(ParamKeys), t \in {"enum", "string", "integer"}, r \in BOOLEAN}
    \cup {Param(StrV(KType), "ENUM ", TRUE), Param(StrV(KCount), "bool", FALSE),
          Param(NoneV, "string", TRUE)}

\* the catalog returns a schema ORDER BY required DESC, key ASC; keys are unique
SchemaOrdered(ps) ==
    \A i, j \in 1..Len(ps) :
        i < j => /\ ps[i].key # ps[j].key
                 /\ (ps[j].required => ps[i].required)
                 /\ (ps[i].required = ps[j].required => KeyRank(ps[i].key) < KeyRank(ps[j].key))

Schemas ==
    {ps \in UNION {[1..n -> ParamChoices] : n \in 0..MaxParams} : SchemaOrdered(ps)}

SlotValues ==
    {StrV(<<"booth">>), StrV(<<" ", "stand">>), StrV(<<" ">>), StrV(<<"A12">>),
     IntV(7), NoneV}

SlotKeys == {KType, KName, <<"name">>}

SlotChoices ==
    UNION {[ks -> SlotValues] : ks \in {x \in SUBSET SlotKeys : Cardinality(x) <= MaxSlots}}

Scenario1Slots == [k \in {KType, KName} |->
                       IF k = KType THEN StrV(<<"booth">>) ELSE StrV(<<"A12">>)]
Scenario1Schema == <<Param(StrV(KType), "enum", TRUE), Param(StrV(KName), "string", TRUE)>>

----------------------------------------------------------------------------
(* SpecScore: _score_params applied to every bounded input *)

NoScore == [fillable |-> TRUE, bindings |-> EmptyBindings, param_score |-> RatZero,
            evidence |-> <<>>]
NoKg == [actions |-> <<>>, dataDim |-> EmbedDim,
         index |-> [exists |-> FALSE, dim |-> 0, readable |-> TRUE, online |-> FALSE]]

NoService == [kind |-> "none"]
NoOutcome == [how |-> "none"]
ServiceIdle == svc = NoService /\ attempts = <<>> /\ outcome = NoOutcome
ScoreIdle == slots = EmptyBindings /\ params = <<>> /\ scored = NoScore
PlanIdle == maxDepth = 0 /\ nodes = <<>> /\ stack = <<>> /\ dcalls = <<>>

NoConfig == [enable_scope_gate |-> FALSE, scope_gate_strict |-> TRUE]
NoResult ==
    [outcome |-> "none", error |-> "", id |-> <<>>, depth |-> 0, type |-> "", reason |-> "",
     sub_plans |-> <<>>, execution_logic |-> <<>>,
     unmatched_sub_intentions |-> <<>>, matched_sub_intentions |-> <<>>,
     sub_intentions |-> <<>>, allowed_actions |-> <<>>, illegal_atomic_nodes |-> <<>>,
     scope_gate |-> "", tree |-> <<>>]

\* no answer of a collaborator yet
NoAnswer == [asked |-> FALSE]

AgentIdle ==
    /\ intention = <<>>
    /\ config = NoConfig
    /\ subs = <<>>
    /\ unmatched = <<>>
    /\ matched = <<>>
    /\ chosen = <<>>
    /\ allowed = {}
    /\ invoked = {}
    /\ parsed = NoAnswer
    /\ gate = NoAnswer
    /\ trace = <<>>
    /\ result = NoResult

InitScore ==
    /\ pc = "score_ready"
    /\ ServiceIdle
    /\ domain \in Profiles
    /\ slots \in SlotChoices
    /\ params \in Schemas
    /\ scored = NoScore
    /\ kg = NoKg
    /\ calls = <<>>
    /\ PlanIdle
    /\ AgentIdle

DoScoreParams ==
    /\ pc = "score_ready"
    /\ scored' = ScoreParams(domain, slots, params)
    /\ pc' = "scored"
    /\ UNCHANGED <<domain, serviceVars, slots, params, kg, calls, planVars, agentVars>>

NextScore == DoScoreParams

SpecScore == InitScore /\ [][NextScore]_vars

\* the parameters the scoring loop gives a weight: usable key, resolved value
Resolved(d, sl, ps) ==
    {i \in 1..Len(ps) : KeyOk(ps[i]) /\ ~Unresolved(GetSlotValue(d, sl, ps[i].key.s))}

AllRequiredResolved(d, sl, ps) ==
    \A i \in 1..Len(ps) : (ps[i].required /\ KeyOk(ps[i])) => i \in Resolved(d, sl, ps)

TypeValidReasons == {"enum_match", "string_present", "number_parse_ok"}

IsScenario1 == slots = Scenario1Slots /\ params = Scenario1Schema

\* C10 (as amended): scoring slots {target_type: booth, target_name: A12} against the
\* schema with the required enum target_type and the required string target_name
\* yields fillable = true and param_score = 0.9; in general a schema whose required
\* parameters are all resolved is fillable, and it scores 1.0 exactly when at least
\* one parameter is resolved and every resolved parameter is an enum parameter whose
\* value is in its enum set.
ResolvedSchemaScore ==
    pc = "scored" =>
        /\ IsScenario1 => (scored.fillable /\ scored.param_score = Rat(9, 10))
        /\ AllRequiredResolved(domain, slots, params) =>
              /\ scored.fillable
              /\ scored.param_score = RatOne <=>
                    /\ Resolved(domain, slots, params) # {}
                    /\ \A i \in Resolved(domain, slots, params) :
                          ScoreReason(domain, params[i],
                                      GetSlotValue(domain, slots, params[i].key.s))
                              = "enum_match"

\* C10, witness: the scenario was scored, and scored 0.9
Scenario1Scored ==
    pc = "scored" /\ IsScenario1 /\ scored.fillable /\ scored.param_score = Rat(9, 10)

\* C10 (as stated): the scenario scores 1.0, and so does every schema whose required
\* parameters are all resolved and type-valid
ResolvedSchemaScoresOne ==
    pc = "scored" =>
        /\ IsScenario1 => (scored.fillable /\ scored.param_score = RatOne)
        /\ ( /\ AllRequiredResolved(domain, slots, params)
             /\ \E i \in 1..Len(params) : params[i].required /\ KeyOk(params[i])
             /\ \A i \in Resolved(domain, slots, params) :
                   params[i].required =>
                       ScoreReason(domain, params[i],
                                   GetSlotValue(domain, slots, params[i].key.s))
                           \in TypeValidReasons )
           => scored.param_score = RatOne

\* the required parameters with a usable key that resolve to nothing
MissingKeyed(d, sl, ps) ==
    {i \in 1..Len(ps) :
        ps[i].required /\ KeyOk(ps[i]) /\ Unresolved(GetSlotValue(d, sl, ps[i].key.s))}

\* what a parameter resolves to; a parameter without a string key resolves to nothing
ResolvesToNothing(d, sl, p) ==
    IF IsStr(p.key) THEN Unresolved(GetSlotValue(d, sl, p.key.s)) ELSE TRUE

Lowest(S) == CHOOSE i \in S : \A j \in S : i <= j

Scenario2Schema == <<Param(StrV(KType), "enum", TRUE)>>
IsScenario2 == slots = EmptyBindings /\ params = Scenario2Schema

ShortCircuited ==
    /\ ~scored.fillable
    /\ scored.param_score = RatZero
    /\ scored.bindings = EmptyBindings
    /\ Len(scored.evidence) = 1
    /\ ~scored.evidence[1].filled
    /\ scored.evidence[1].reason = "required_missing"

\* C11 (as amended): whenever a required parameter with a non-empty string key
\* resolves (by direct key or profile alias) to absent or to an empty / whitespace-only
\* string, scoring returns fillable = false, param_score = 0.0 and empty bindings,
\* and the evidence holds only the missing-required entry of the first such
\* parameter; empty slots against one required enum parameter give that result.
RequiredMissingShortCircuits ==
    pc = "scored" =>
        /\ IsScenario2 => ShortCircuited
        /\ MissingKeyed(domain, slots, params) # {} =>
              /\ ShortCircuited
              /\ scored.evidence[1].param
                    = params[Lowest(MissingKeyed(domain, slots, params))].key.s

\* C11, witness: a schema of two parameters whose second required parameter is the
\* one that is missing was scored, the first one being resolvable
SecondRequiredMissing ==
    /\ pc = "scored"
    /\ Len(params) = 2
    /\ MissingKeyed(domain, slots, params) = {2}
    /\ 1 \in Resolved(domain, slots, params)
    /\ ShortCircuited

\* C11 (as stated): any required parameter of the schema that resolves to nothing
\* makes the result unfillable
AnyRequiredMissingShortCircuits ==
    pc = "scored" =>
        ((\E i \in 1..Len(params) :
              params[i].required /\ ResolvesToNothing(domain, slots, params[i]))
         => ShortCircuited)

----------------------------------------------------------------------------
(* SpecPlan: RecursivePlanner.plan(intent, actions, max_depth = N) from depth 0 *)

InitPlan ==
    /\ pc = "plan_ready"
    /\ ServiceIdle
    /\ domain = DefaultProfile
    /\ ScoreIdle
    /\ kg = NoKg
    /\ calls = <<>>
    /\ maxDepth \in 0..MaxDepth
    /\ nodes = <<>>
    /\ stack = <<>>
    /\ dcalls = <<>>
    /\ AgentIdle

\* the planner's state after a step, within the bound on the size of the tree
PlanApply(r) ==
    /\ Len(r.nodes) + PendingSubs(r.stack) <= MaxNodes
    /\ nodes' = r.nodes
    /\ stack' = r.stack
    /\ dcalls' = r.dcalls

PlanRoot ==
    /\ pc = "plan_ready"
    /\ \E resp \in PlanAnswers :
          PlanApply(PlanEnter(nodes, stack, dcalls, <<"root">>, <<"visit">>, 0, <<"N/A">>, 0,
                              maxDepth, resp))
    /\ pc' = IF stack' = <<>> THEN "planned" ELSE "planning"
    /\ UNCHANGED <<domain, serviceVars, scoreVars, matchVars, maxDepth, agentVars>>

PlanStep ==
    /\ pc = "planning"
    /\ \E resp \in PlanAnswers : PlanApply(PlanLoop(nodes, stack, dcalls, maxDepth, resp))
    /\ pc' = IF stack' = <<>> THEN "planned" ELSE "planning"
    /\ UNCHANGED <<domain, serviceVars, scoreVars, matchVars, maxDepth, agentVars>>

NextPlan == PlanRoot \/ PlanStep

SpecPlan == InitPlan /\ [][NextPlan]_vars

\* the nodes plan() itself was entered for; the others are the children made
\* directly from sub-intents marked atomic
Entered(ns) == {i \in 1..Len(ns) : ns[i].type # "atomic"}

\* C5 (as amended): the tree plan(intent, max_depth = N) returns holds no node with
\* depth > N, and every node with depth = N has type leaf_forced_atomic, or type
\* atomic when it is the child made from an atomic sub-intent of a node at depth N - 1.
DepthBound ==
    pc = "planned" =>
        \A i \in 1..Len(nodes) :
            /\ nodes[i].depth <= maxDepth
            /\ nodes[i].depth = maxDepth =>
                  \/ nodes[i].type = "leaf_forced_atomic"
                  \/ /\ nodes[i].type = "atomic"
                     /\ nodes[i].parent # 0
                     /\ nodes[nodes[i].parent].depth = maxDepth - 1

\* C5, witness: a returned tree with a forced leaf and an atomic child at depth N
CeilingReachedBothWays ==
    /\ pc = "planned"
    /\ maxDepth >= 1
    /\ \E i, j \in 1..Len(nodes) :
          /\ nodes[i].depth = maxDepth /\ nodes[i].type = "leaf_forced_atomic"
          /\ nodes[j].depth = maxDepth /\ nodes[j].type = "atomic"

\* C5 (as stated): no node deeper than N, and every node at depth N is a
\* leaf_forced_atomic
DepthBoundAllForced ==
    pc = "planned" =>
        \A i \in 1..Len(nodes) :
            /\ nodes[i].depth <= maxDepth
            /\ nodes[i].depth = maxDepth => nodes[i].type = "leaf_forced_atomic"

\* C6: the decomposer is never called for a node plan() is entered for at a depth
\* >= max_depth; that node is a leaf_forced_atomic with is_atomic true, atomic_source
\* new_generated and no children; with max_depth = 0 the result is the root alone
\* and the decomposer is not called at all.
NoDecomposerCallAtCeiling ==
    /\ \A c \in 1..Len(dcalls) : dcalls[c].depth < maxDepth
    /\ \A i \in Entered(nodes) :
          nodes[i].depth >= maxDepth =>
              /\ nodes[i].type = "leaf_forced_atomic"
              /\ nodes[i].is_atomic
              /\ nodes[i].atomic_source = "new_generated"
              /\ Children(nodes, i) = {}
              /\ \A c \in 1..Len(dcalls) : dcalls[c].node # i
    /\ (maxDepth = 0 /\ pc = "planned") => (Len(nodes) = 1 /\ dcalls = <<>>)

\* C6, witness: a returned tree with a node entered at the ceiling, below a root the
\* decomposer was called for
CeilingNodeReturned ==
    /\ pc = "planned"
    /\ maxDepth >= 1
    /\ dcalls # <<>>
    /\ \E i \in Entered(nodes) : nodes[i].depth = maxDepth

----------------------------------------------------------------------------
(* Enum parameters *)

\* the enum-typed parameters of the schema that the slots resolve
ResolvedEnums == {i \in Resolved(domain, slots, params) : PType(params[i]) = "enum"}

\* the slot value of parameter i, and its normalized, alias-remapped form
RawValue(i) == GetSlotValue(domain, slots, params[i].key.s)
Remapped(i) == MapEnumAlias(domain, params[i].key.s, NormalizeEnumValue(domain, RawValue(i)))

\* the evidence entries of parameter i
EvidenceFor(i) ==
    {j \in 1..Len(scored.evidence) : scored.evidence[j].param = params[i].key.s}

\* C32: when the parameters are scored, a resolved enum parameter scores 1.0 if its
\* normalized, alias-remapped value is in the enum set and 0.0 otherwise; its
\* binding is the remapped value on a match and the raw slot value on a mismatch; a
\* mismatch counts with its weight, so param_score stays below 1, and the result is
\* fillable whenever every required parameter is resolved, mismatch or not.
EnumScoredAllOrNothing ==
    pc = "scored" =>
        /\ scored.fillable = AllRequiredResolved(domain, slots, params)
        /\ scored.fillable =>
              \A i \in ResolvedEnums :
                  /\ EvidenceFor(i) # {}
                  /\ \A j \in EvidenceFor(i) :
                        /\ scored.evidence[j].filled
                        /\ scored.evidence[j].score
                             = (IF Remapped(i) \in params[i].enum THEN 10 ELSE 0)
                  /\ params[i].key.s \in DOMAIN scored.bindings
                  /\ scored.bindings[params[i].key.s]
                       = (IF Remapped(i) \in params[i].enum THEN StrV(Remapped(i))
                          ELSE RawValue(i))
                  /\ Remapped(i) \notin params[i].enum => RatLt(scored.param_score, RatOne)

\* reached: a required enum parameter whose value " stand" is no enum value after
\* trimming and has no alias: scored 0, bound to the raw value, still fillable
EnumMismatchStillFillable ==
    /\ pc = "scored"
    /\ domain = DefaultProfile
    /\ scored.fillable
    /\ \E i \in ResolvedEnums :
          /\ params[i].required
          /\ RawValue(i) = StrV(<<" ", "stand">>)
          /\ scored.bindings[params[i].key.s] = StrV(<<" ", "stand">>)
          /\ scored.param_score = RatZero

----------------------------------------------------------------------------
(* The planner's tree, node by node *)

\* the decomposer calls made for node i
CallsFor(i) == {c \in 1..Len(dcalls) : dcalls[c].node = i}

\* the decomposer returned nothing for node i
DecompositionFailed(i) == \E c \in CallsFor(i) : dcalls[c].answer.failed

\* what the decomposer declared for node i: its sub-intents, none without an answer
Declared(i) ==
    IF \E c \in CallsFor(i) : ~dcalls[c].answer.failed
    THEN dcalls[CHOOSE c \in CallsFor(i) : ~dcalls[c].answer.failed].answer.sub_intents
    ELSE <<>>

Finished == pc = "planned" /\ stack = <<>>

\* C28: a node below the depth ceiling for which the decomposer returned nothing
\* is a composite node with an error, without children and with empty
\* execution_logic; the decomposer was called once for it; and in the finished
\* tree its parent still has a child for every sub-intent declared for it.
FailedDecompositionIsTerminal ==
    \A i \in 1..Len(nodes) :
        DecompositionFailed(i) =>
            /\ nodes[i].depth < maxDepth
            /\ nodes[i].type = "composite"
            /\ nodes[i].error # ""
            /\ Children(nodes, i) = {}
            /\ nodes[i].execution_logic = <<>>
            /\ Cardinality(CallsFor(i)) = 1
            /\ (Finished /\ nodes[i].parent # 0) =>
                  Cardinality(Children(nodes, nodes[i].parent))
                      = Len(Declared(nodes[i].parent))

\* reached: a finished tree in which the first child failed to decompose and its
\* sibling after it was decomposed into children of its own
SiblingExpandedAfterFailure ==
    /\ Finished
    /\ \E i, j \in 1..Len(nodes) :
          /\ DecompositionFailed(i)
          /\ i < j
          /\ nodes[j].parent = nodes[i].parent
          /\ Children(nodes, j) # {}

\* node c is the child the loop makes of the declared sub-intent sub of node i
ChildOf(c, sub, i) ==
    /\ nodes[c].id = sub.id
    /\ nodes[c].intent = sub.intent
    /\ nodes[c].depth = nodes[i].depth + 1
    /\ nodes[c].scheduled_start = sub.scheduled_start
    /\ IF sub.is_atomic
       THEN /\ nodes[c].type = "atomic"
            /\ nodes[c].action = sub.action
            /\ nodes[c].atomic_source = sub.atomic_source
            /\ CallsFor(c) = {}
            /\ Children(nodes, c) = {}
       ELSE /\ nodes[c].type \in {"composite", "leaf_forced_atomic", "leaf_no_children"}
            /\ (nodes[c].depth < maxDepth) = (Cardinality(CallsFor(c)) = 1)

\* C29: a node below the ceiling whose decomposition declared s1..sn (n >= 1) gets
\* its children one after another in that order, the whole subtree of one before
\* the next: the k-th child is an atomic leaf at depth+1 with sk's id, action,
\* atomic_source and scheduled_start and no decomposer call when sk is atomic, and
\* otherwise the node planned for sk's intent at depth+1 with sk's id and
\* scheduled_start; the finished tree has exactly n children for the node.
ChildrenFollowDeclaration ==
    \A i \in 1..Len(nodes) :
        Declared(i) # <<>> =>
            /\ nodes[i].depth < maxDepth
            /\ Len(SubPlans(nodes, i)) <= Len(Declared(i))
            /\ Finished => Len(SubPlans(nodes, i)) = Len(Declared(i))
            /\ \A k \in 1..Len(SubPlans(nodes, i)) :
                  /\ ChildOf(SubPlans(nodes, i)[k], Declared(i)[k], i)
                  /\ k > 1 =>
                        \A x \in (SubPlans(nodes, i)[k - 1] + 1)..(SubPlans(nodes, i)[k] - 1) :
                            nodes[x].parent >= SubPlans(nodes, i)[k - 1]

\* reached: a finished tree whose root has a planned subtree with children as first
\* child and an atomic leaf as second child
SubtreeThenAtomicChild ==
    /\ Finished
    /\ Len(SubPlans(nodes, 1)) = 2
    /\ ~Declared(1)[1].is_atomic
    /\ Children(nodes, SubPlans(nodes, 1)[1]) # {}
    /\ Declared(1)[2].is_atomic
    /\ nodes[SubPlans(nodes, 1)[2]].type = "atomic"

NodeTypes(ns) == {ns[i].type : i \in 1..Len(ns)}

\* C30: in a tree plan() builds from depth 0 the root has depth 0, every other
\* node is one level below its parent, and only composite nodes have children:
\* atomic, leaf_forced_atomic and leaf_no_children nodes have none.
DepthsAndLeavesWellFormed ==
    \A i \in 1..Len(nodes) :
        /\ (i = 1) = (nodes[i].parent = 0)
        /\ i = 1 => nodes[i].depth = 0
        /\ i > 1 => /\ nodes[i].parent \in 1..(i - 1)
                    /\ nodes[i].depth = nodes[nodes[i].parent].depth + 1
                    /\ nodes[nodes[i].parent].type = "composite"
        /\ nodes[i].type \in {"atomic", "leaf_forced_atomic", "leaf_no_children"}
              => SubPlans(nodes, i) = <<>>

\* reached: a finished tree holding a leaf of each kind below a composite root
EveryLeafKindPlanned ==
    /\ Finished
    /\ NodeTypes(nodes) = {"composite", "atomic", "leaf_forced_atomic", "leaf_no_children"}

----------------------------------------------------------------------------
(* SpecMatch: match_actions called, then called again with the same arguments *)

Intentions == {<<"go">>, <<" ", "find", " ", " ", "x">>}
NormTexts == {Normalize(d, x) : d \in Profiles, x \in Intentions}
ConstSim(sc) == [t \in NormTexts |-> sc]

Action(name, sim, schema) ==
    [name |-> name, description |-> <<"does">> \o name, sim |-> sim, schema |-> schema]

ActionNames == <<<<"a">>, <<"b">>, <<"c">>>>

MatchSchemas ==
    {<<>>,
     <<Param(StrV(KType), "enum", TRUE)>>,
     <<Param(StrV(KType), "enum", TRUE), Param(StrV(KName), "string", FALSE)>>}

\* catalogs: the i-th action is named ActionNames[i]
MatchCatalogActions ==
    UNION {{acts \in [1..n -> {Action(ActionNames[i], ConstSim(sc), sch) :
                                  i \in 1..n, sc \in {40, 80}, sch \in MatchSchemas}] :
               \A i \in 1..n : /\ acts[i].name = ActionNames[i]
                                /\ (i > 1 => Len(acts[i].schema) # 1)} : n \in 0..MaxActions}

\* the index before the call: missing, online with the embedder's dimensionality,
\* online with another one, or with options the driver cannot read
IndexStates ==
    {[exists |-> FALSE, dim |-> 0, readable |-> TRUE, online |-> FALSE],
     [exists |-> TRUE, dim |-> EmbedDim, readable |-> TRUE, online |-> TRUE],
     [exists |-> TRUE, dim |-> EmbedDim + 1, readable |-> TRUE, online |-> TRUE],
     [exists |-> TRUE, dim |-> EmbedDim, readable |-> FALSE, online |-> TRUE]}

OnlineIndex == [exists |-> TRUE, dim |-> EmbedDim, readable |-> TRUE, online |-> TRUE]

\* every catalog behind a usable index, and one catalog behind every state of the index
MatchCatalogs ==
    {[actions |-> acts, dataDim |-> EmbedDim, index |-> OnlineIndex] :
        acts \in MatchCatalogActions}
    \cup {[actions |-> <<Action(ActionNames[1], ConstSim(80),
                                <<Param(StrV(KType), "enum", TRUE)>>)>>,
            dataDim |-> EmbedDim, index |-> ix] : ix \in IndexStates}

MatchSlots ==
    {EmptyBindings,
     [k \in {<<"_", "source_text">>} |-> StrV(<<"go">>)],
     [k \in {KType} |-> StrV(<<"booth">>)],
     [k \in {KType} |-> StrV(<<" ", "stand">>)],
     [k \in {KType, <<"name">>} |-> IF k = KType THEN StrV(<<" ">>) ELSE StrV(<<"A12">>)]}

\* match_actions' defaults (action_matcher.py:210-218), in hundredths
DefaultTopK == 10
DefaultMinScore == 75
DefaultAliasWeight == 15
DefaultWBase == 40
DefaultWParam == 60
DefaultMinParamScore == 35
DefaultMinFinalScore == 55

Args(text, sl, top_k, allow_fallback, w_base, w_param, enable_param_gate) ==
    [intention |-> text, slots |-> sl, top_k |-> top_k, min_score |-> DefaultMinScore,
     allow_fallback |-> allow_fallback, alias_weight |-> DefaultAliasWeight,
     w_base |-> w_base, w_param |-> w_param, min_param_score |-> DefaultMinParamScore,
     min_final_score |-> DefaultMinFinalScore, enable_param_gate |-> enable_param_gate]

DefaultArgs(text, sl) ==
    Args(text, sl, DefaultTopK, TRUE, DefaultWBase, DefaultWParam, TRUE)

\* the defaults, and each of top_k, allow_fallback, the weights and the gate changed
ArgVariants ==
    {<<DefaultTopK, TRUE, DefaultWBase, DefaultWParam, TRUE>>,
     <<1, TRUE, DefaultWBase, DefaultWParam, TRUE>>,
     <<DefaultTopK, FALSE, DefaultWBase, DefaultWParam, TRUE>>,
     <<DefaultTopK, TRUE, 70, 30, TRUE>>,
     <<DefaultTopK, TRUE, DefaultWBase, DefaultWParam, FALSE>>,
     <<1, FALSE, 70, 30, FALSE>>}

MatchArgs ==
    {Args(t, sl, v[1], v[2], v[3], v[4], v[5]) :
        t \in Intentions, sl \in MatchSlots, v \in ArgVariants}

\* the calls with every argument but the text and the slots left at its default
DefaultMatchArgs == {DefaultArgs(t, sl) : t \in Intentions, sl \in MatchSlots}

Faults == {"none", "embed", "index", "await", "search_primary", "search_all", "params"}

InitMatch ==
    /\ pc = "match_ready"
    /\ ServiceIdle
    /\ domain \in Profiles
    /\ ScoreIdle
    /\ kg \in MatchCatalogs
    /\ calls = <<>>
    /\ PlanIdle
    /\ AgentIdle

\* one match_actions call: its record, and the catalog it leaves behind
CallRecord(a, fault, r) ==
    [args |-> a, fault |-> fault, indexBefore |-> kg.index, raised |-> r.raised,
     matches |-> r.matches, index |-> r.index, ops |-> r.ops, searches |-> r.searches,
     rows |-> r.rows, lookups |-> r.lookups]

DoMatch(a, fault) ==
    LET r == MatchActions(domain, kg, a, fault)
    IN  /\ calls' = Append(calls, CallRecord(a, fault, r))
        /\ kg' = [kg EXCEPT !.index = r.index]

MatchCall ==
    /\ pc = "match_ready"
    /\ \E a \in MatchArgs, fault \in Faults :
          /\ fault = "none" \/ a \in DefaultMatchArgs
          /\ DoMatch(a, fault)
    /\ pc' = "matched_once"
    /\ UNCHANGED <<domain, serviceVars, scoreVars, planVars, agentVars>>

\* the same arguments again, the collaborators failing as before
MatchAgain ==
    /\ pc = "matched_once"
    /\ DoMatch(calls[1].args, calls[1].fault)
    /\ pc' = "matched_twice"
    /\ UNCHANGED <<domain, serviceVars, scoreVars, planVars, agentVars>>

\* a populating index comes ONLINE by itself
IndexComesOnline ==
    /\ pc \in {"matched_once"}
    /\ kg.index.exists /\ ~kg.index.online
    /\ kg' = [kg EXCEPT !.index.online = TRUE]
    /\ UNCHANGED <<pc, domain, serviceVars, scoreVars, calls, planVars, agentVars>>

NextMatch == MatchCall \/ MatchAgain \/ IndexComesOnline

SpecMatch == InitMatch /\ [][NextMatch]_vars

\* the calls that returned a list
ReturnedCalls == {i \in 1..Len(calls) : ~calls[i].raised}

\* a required parameter of the named action cannot be resolved from the slots sl
MissingRequired(action_name, sl) ==
    FirstMissingRequired(domain, sl, GetActionParams(kg, action_name), 1) # 0

\* the call scored its candidates' parameters: effective slots were supplied and
\* the schema of the named action was found
ParamsScored(c, action_name) ==
    /\ DOMAIN EffectiveSlots(c.args.slots) # {}
    /\ c.fault # "params"
    /\ GetActionParams(kg, action_name) # <<>>

\* C7 (as amended): when match_actions is given effective slots (keys not starting
\* with "_") and the schema of a candidate is found, a candidate with a required
\* parameter that cannot be resolved from those slots gets fillable = false, and it is
\* in the returned list only when enable_param_gate is false; without effective slots,
\* or without a schema, a candidate is returned with fillable = true whatever its
\* required parameters.
UnfillableGated ==
    \A i \in ReturnedCalls :
        \A j \in 1..Len(calls[i].matches) :
            LET c == calls[i]
                m == c.matches[j]
            IN  IF ParamsScored(c, m.action.name)
                THEN MissingRequired(m.action.name, EffectiveSlots(c.args.slots)) =>
                         (~m.fillable /\ ~c.args.enable_param_gate)
                ELSE m.fillable

\* C7, witness: with the gate disabled, a candidate whose required parameter is
\* unresolved was returned with fillable = false
UnfillableSeen ==
    /\ \E i \in ReturnedCalls :
          /\ ~calls[i].args.enable_param_gate
          /\ \E j \in 1..Len(calls[i].matches) :
                /\ ParamsScored(calls[i], calls[i].matches[j].action.name)
                /\ MissingRequired(calls[i].matches[j].action.name,
                                   EffectiveSlots(calls[i].args.slots))
                /\ ~calls[i].matches[j].fillable

\* C7 (as stated): every candidate with a required parameter that cannot be resolved
\* from the slots supplied has fillable = false, and is not returned when
\* enable_param_gate is true
UnfillableNeverReturned ==
    \A i \in ReturnedCalls :
        \A j \in 1..Len(calls[i].matches) :
            MissingRequired(calls[i].matches[j].action.name, calls[i].args.slots) =>
                (~calls[i].matches[j].fillable /\ ~calls[i].args.enable_param_gate)

\* the row of a call that a returned match was built from
RowFor(c, m) == CHOOSE r \in {c.rows[x] : x \in 1..Len(c.rows)} : RowName(r) = m.action.name

\* C8: every returned ActionMatch has final_score = w_base * base_score + w_param *
\* param_score, base_score = (1 - alias_weight) * similarity + alias_weight *
\* alias_score, and score = final_score, for any weights supplied.
FinalScoreIsWeightedSum ==
    \A i \in ReturnedCalls :
        \A j \in 1..Len(calls[i].matches) :
            LET c == calls[i]
                m == c.matches[j]
                norm == Normalize(domain, c.args.intention)
            IN  /\ m.final_score =
                      RatAdd(RatMul(Hundredths(c.args.w_base), m.base_score),
                             RatMul(Hundredths(c.args.w_param), m.param_score))
                /\ m.base_score =
                      RatAdd(RatMul(Hundredths(100 - c.args.alias_weight),
                                    Hundredths(RowFor(c, m).score)),
                             RatMul(Hundredths(c.args.alias_weight),
                                    AliasScore(domain, m.action.name, norm)))
                /\ m.score = m.final_score

\* C8, witness: a match returned under weights other than the defaults, with a
\* parameter score and an alias score that both count
WeightedMatchSeen ==
    \E i \in ReturnedCalls :
        /\ calls[i].args.w_base # DefaultWBase
        /\ \E j \in 1..Len(calls[i].matches) :
              /\ RatLt(RatZero, calls[i].matches[j].param_score)
              /\ RatLt(RatZero, AliasScore(domain, calls[i].matches[j].action.name,
                                           Normalize(domain, calls[i].args.intention)))

\* the second call met the catalog as the first one left it
CatalogUndisturbed == calls[2].indexBefore = calls[1].index

\* C9: two successive calls of match_actions with the same arguments, the embedder
\* and the catalog answering the same queries the same way, return lists of equal
\* length with the same action and the same base_score, param_score and final_score
\* at every position.
MatchIdempotent ==
    (pc = "matched_twice" /\ CatalogUndisturbed) =>
        /\ calls[1].raised = calls[2].raised
        /\ Len(calls[1].matches) = Len(calls[2].matches)
        /\ \A j \in 1..Len(calls[1].matches) :
              /\ calls[1].matches[j].action = calls[2].matches[j].action
              /\ calls[1].matches[j].base_score = calls[2].matches[j].base_score
              /\ calls[1].matches[j].param_score = calls[2].matches[j].param_score
              /\ calls[1].matches[j].final_score = calls[2].matches[j].final_score

\* C9, witness: the first call had to create the index, the second found it, and
\* both returned a match
MatchedTwiceAcrossIndexCreation ==
    /\ pc = "matched_twice"
    /\ CatalogUndisturbed
    /\ calls[1].ops # <<>>
    /\ calls[2].ops = <<>>
    /\ calls[1].matches # <<>>
    /\ calls[2].matches # <<>>

\* the schema the catalog holds for row r, as call c could read it
SchemaFound(c, r) == IF c.fault = "params" THEN <<>> ELSE GetActionParams(kg, RowName(r))

\* gating is active for row r of call c: effective slots exist, a non-empty schema
\* was found, and enable_param_gate is true
GatingActive(c, r) ==
    /\ DOMAIN EffectiveSlots(c.args.slots) # {}
    /\ SchemaFound(c, r) # <<>>
    /\ c.args.enable_param_gate

\* the parameter scoring of row r against the effective slots of call c
RowScoring(c, r) == ScoreParams(domain, EffectiveSlots(c.args.slots), SchemaFound(c, r))

\* w_base * base_score + w_param * param_score of row r, for parameter score ps
RowFinal(c, r, ps) ==
    RatAdd(RatMul(Hundredths(c.args.w_base),
                  BaseScore(c.args.alias_weight, Hundredths(r.score),
                            AliasScore(domain, RowName(r),
                                       Normalize(domain, c.args.intention)))),
           RatMul(Hundredths(c.args.w_param), ps))

\* row r fails one of the three tests of the gate
FailsGate(c, r) ==
    \/ ~RowScoring(c, r).fillable
    \/ RatLt(RowScoring(c, r).param_score, Hundredths(c.args.min_param_score))
    \/ RatLt(RowFinal(c, r, RowScoring(c, r).param_score), Hundredths(c.args.min_final_score))

\* row r of call c is in the list the call returned
InResult(c, r) == \E j \in 1..Len(c.matches) : c.matches[j].action.name = RowName(r)

\* C17: a candidate returned by the similarity search is excluded from the result of
\* match_actions if and only if gating is active for it (effective slots exist, a
\* non-empty parameter schema was found, enable_param_gate is true) and it is not
\* fillable, or else its param_score < min_param_score, or else its final_score <
\* min_final_score; the call does not raise for an exclusion, and every returned
\* match has an empty reject_reason.
ExcludedIffGateFails ==
    \A i \in 1..Len(calls) :
        /\ calls[i].fault \notin {"embed", "index"} => ~calls[i].raised
        /\ \A x \in 1..Len(calls[i].rows) :
              ~InResult(calls[i], calls[i].rows[x])
                  <=> (GatingActive(calls[i], calls[i].rows[x])
                       /\ FailsGate(calls[i], calls[i].rows[x]))
        /\ \A j \in 1..Len(calls[i].matches) : calls[i].matches[j].reject_reason = ""

\* C17, witness: a call that kept one candidate and excluded another one that was
\* fillable with a param_score above its threshold, for its final_score alone
ExcludedForFinalScore ==
    \E i \in ReturnedCalls :
        \E x, y \in 1..Len(calls[i].rows) :
            /\ InResult(calls[i], calls[i].rows[x])
            /\ ~InResult(calls[i], calls[i].rows[y])
            /\ GatingActive(calls[i], calls[i].rows[y])
            /\ RowScoring(calls[i], calls[i].rows[y]).fillable
            /\ ~RatLt(RowScoring(calls[i], calls[i].rows[y]).param_score,
                      Hundredths(calls[i].args.min_param_score))

\* the slots of call c are absent, empty, or hold only keys starting with "_"
NoEffectiveSlots(c) == \A k \in DOMAIN c.args.slots : StartsWithUnderscore(k)

\* C18: when the slots given to match_actions are absent, empty, or contain only
\* keys starting with "_", no parameter schema is looked up and no gate is applied:
\* every candidate the similarity search returned is in the result, with param_score
\* 0, fillable true and final_score = w_base * base_score.
NoSlotsNoGate ==
    \A i \in ReturnedCalls :
        NoEffectiveSlots(calls[i]) =>
            /\ calls[i].lookups = <<>>
            /\ Len(calls[i].matches) = Len(calls[i].rows)
            /\ \A x \in 1..Len(calls[i].rows) : InResult(calls[i], calls[i].rows[x])
            /\ \A j \in 1..Len(calls[i].matches) :
                  /\ calls[i].matches[j].param_score = RatZero
                  /\ calls[i].matches[j].fillable
                  /\ calls[i].matches[j].final_score =
                        RatMul(Hundredths(calls[i].args.w_base),
                               calls[i].matches[j].base_score)

\* C18, witness: a call whose only slot is "_source_text" returned an action that
\* has a required parameter
UnderscoreSlotsOnly ==
    \E i \in ReturnedCalls :
        /\ DOMAIN calls[i].args.slots # {}
        /\ NoEffectiveSlots(calls[i])
        /\ \E j \in 1..Len(calls[i].matches) :
              \E p \in 1..Len(GetActionParams(kg, calls[i].matches[j].action.name)) :
                  GetActionParams(kg, calls[i].matches[j].action.name)[p].required

\* the match call c returned for row r
MatchOf(c, r) ==
    c.matches[CHOOSE j \in 1..Len(c.matches) : c.matches[j].action.name = RowName(r)]

\* call c had effective slots and got no schema for row r: the catalog holds none
\* for it, or the lookup raised
SchemaUnavailable(c, r) ==
    DOMAIN EffectiveSlots(c.args.slots) # {} /\ SchemaFound(c, r) = <<>>

\* C19: when effective slots exist but the catalog returns no parameter schema for a
\* candidate, or the schema lookup raises, the candidate is not excluded by any gate,
\* the call goes on to the remaining candidates without raising, and the evidence of
\* the returned match records that the schema was unavailable.
SchemaGapNeverGates ==
    \A i \in 1..Len(calls) :
        (\E x \in 1..Len(calls[i].rows) : SchemaUnavailable(calls[i], calls[i].rows[x]))
        => /\ ~calls[i].raised
           /\ Len(calls[i].lookups) = Len(calls[i].rows)
           /\ \A x \in 1..Len(calls[i].rows) :
                 SchemaUnavailable(calls[i], calls[i].rows[x]) =>
                     /\ InResult(calls[i], calls[i].rows[x])
                     /\ ~MatchOf(calls[i], calls[i].rows[x]).evidence.params_schema_available
                     /\ ~MatchOf(calls[i], calls[i].rows[x]).evidence.param_gate_enabled
                     /\ MatchOf(calls[i], calls[i].rows[x]).evidence.param_evidence[1].reason
                           = "params_schema_unavailable"

\* C19, witness: the schema lookup raised for both candidates of a call made with
\* effective slots, and both were returned
LookupFailedTwice ==
    \E i \in ReturnedCalls :
        /\ calls[i].fault = "params"
        /\ Len(calls[i].rows) = 2
        /\ Len(calls[i].matches) = 2
        /\ \A x \in 1..2 : /\ SchemaUnavailable(calls[i], calls[i].rows[x])
                             /\ GetActionParams(kg, RowName(calls[i].rows[x])) # <<>>

\* C20: match_actions issues at most two similarity searches per call; the second
\* one, with the same vector and top_k and similarity floor 0, is issued if and only
\* if the first search returned no rows and allow_fallback is true; with
\* allow_fallback false an empty first search yields an empty result.
FallbackSearchOnlyWhenEmpty ==
    \A i \in 1..Len(calls) :
        /\ Len(calls[i].searches) <= 2
        /\ ~calls[i].raised =>
              /\ Len(calls[i].searches) >= 1
              /\ calls[i].searches[1].vector = Normalize(domain, calls[i].args.intention)
              /\ calls[i].searches[1].top_k = calls[i].args.top_k
              /\ calls[i].searches[1].min_score = calls[i].args.min_score
              /\ Len(calls[i].searches) = 2
                    <=> (calls[i].searches[1].rows = <<>> /\ calls[i].args.allow_fallback)
              /\ Len(calls[i].searches) = 2 =>
                    /\ calls[i].searches[2].vector = calls[i].searches[1].vector
                    /\ calls[i].searches[2].top_k = calls[i].searches[1].top_k
                    /\ calls[i].searches[2].min_score = 0
              /\ (calls[i].searches[1].rows = <<>> /\ ~calls[i].args.allow_fallback)
                    => calls[i].matches = <<>>

\* C20, witness: a first search that found nothing above its floor was followed by
\* a second one that found a candidate, which the call returned
FallbackFoundCandidate ==
    \E i \in ReturnedCalls :
        /\ Len(calls[i].searches) = 2
        /\ calls[i].searches[1].rows = <<>>
        /\ calls[i].searches[2].rows # <<>>
        /\ calls[i].matches # <<>>

\* the similarity search of call c failed: a query of the catalog raised, or the
\* vector index could not answer (missing, populating, other dimensionality)
SearchFailed(c) ==
    /\ c.fault \notin {"embed", "index"}
    /\ \/ c.fault \in {"search_primary", "search_all"}
       \/ ~IndexUsable([kg EXCEPT !.index = c.index], EmbedDim)

\* C21 (as stated): a failure of the catalog's similarity search during match_actions
\* reaches the caller as an error; it is never reported as an empty or partial
\* match list, and the matcher does not search again after it.
SearchFailurePropagates ==
    \A i \in 1..Len(calls) :
        SearchFailed(calls[i]) => (calls[i].raised /\ Len(calls[i].searches) <= 1)

\* the rows of call c that survived gating
Survivors(c) ==
    {x \in 1..Len(c.rows) : ~(GatingActive(c, c.rows[x]) /\ FailsGate(c, c.rows[x]))}

\* C22: the list match_actions returns is ordered by final_score non-increasing, and
\* it holds exactly the candidates that survived gating, each of them once.
SortedSurvivors ==
    \A i \in ReturnedCalls :
        /\ \A j \in 1..(Len(calls[i].matches) - 1) :
              ~RatLt(calls[i].matches[j].final_score, calls[i].matches[j + 1].final_score)
        /\ Len(calls[i].matches) = Cardinality(Survivors(calls[i]))
        /\ \A x \in Survivors(calls[i]) :
              Cardinality({j \in 1..Len(calls[i].matches) :
                              calls[i].matches[j].action.name = RowName(calls[i].rows[x])}) = 1
        /\ \A j \in 1..Len(calls[i].matches) :
              \E x \in Survivors(calls[i]) :
                  calls[i].matches[j].action.name = RowName(calls[i].rows[x])

\* C22, witness: the sort moved the second row of the search ahead of the first
SortReordered ==
    \E i \in ReturnedCalls :
        /\ Len(calls[i].rows) = 2
        /\ Len(calls[i].matches) = 2
        /\ calls[i].matches[1].action.name = RowName(calls[i].rows[2])
        /\ RatLt(calls[i].matches[2].final_score, calls[i].matches[1].final_score)

----------------------------------------------------------------------------
(* IntentionalAgent.break_down_intention *)

\* the characters of a symbol; a symbol not listed is a single character
CharsOf(sym) ==
    CASE sym = "go" -> {"g", "o"}
      [] sym = "goto" -> {"g", "o", "t"}
      [] sym = "find" -> {"f", "i", "n", "d"}
      [] sym = "zz" -> {"z"}
      [] OTHER -> {sym}

\* set(text)
CharSet(text) == UNION {CharsOf(text[i]) : i \in 1..Len(text)}

\* _token_overlap_ratio(a, b) < 0.25
OverlapBelowQuarter(a, b) ==
    IF Strip(a) = <<>> \/ Strip(b) = <<>> THEN TRUE
    ELSE 4 * Cardinality(CharSet(Strip(a)) \cap CharSet(Strip(b)))
             < Cardinality(CharSet(Strip(a)) \cup CharSet(Strip(b)))

KSourceText == <<"_", "source_text">>
KNormalizedText == <<"_", "normalized_text">>

\* dict.setdefault
SetDefault(sl, key, value) ==
    IF key \in DOMAIN sl THEN sl
    ELSE [k \in DOMAIN sl \cup {key} |-> IF k = key THEN value ELSE sl[k]]

\* _normalize_slots
NormalizeSlots(sl, norm) ==
    SetDefault(SetDefault(sl, KSourceText, StrV(norm)), KNormalizedText, StrV(norm))

SubIntent(intent, sl, raw) == [intent |-> intent, slots |-> sl, raw |-> raw]

\* (desc or name or norm).strip(), normalized
Canon(d, name, desc, norm) ==
    Normalize(d, Strip(IF desc # <<>> THEN desc ELSE IF name # <<>> THEN name ELSE norm))

\* the guard against an over-abstract candidate: no effective slot and little overlap
SubOfCanon(norm, sl, canon) ==
    IF {k \in DOMAIN sl : ~StartsWithUnderscore(k)} = {} /\ OverlapBelowQuarter(norm, canon)
    THEN SubIntent(norm, sl, "llm_over_abstract_without_slots")
    ELSE SubIntent(canon, sl, "candidate")

\* the sub-intent made from one IntentCandidate
SubOfCandidate(d, norm, c) ==
    SubOfCanon(norm, NormalizeSlots(c.slots, norm),
               Canon(d, Strip(c.name), Strip(c.description), norm))

\* SubsOrFallback returning the candidates' sub-intents as they are
SubsAsFound(found, norm) == found

\* "subs or [fallback]"
SubsOrFallback(found, norm) ==
    IF found # <<>> THEN found
    ELSE <<SubIntent(norm, NormalizeSlots(EmptyBindings, norm), "fallback")>>

\* break_down_intention for parse_intent's answer ans: failed, or its candidates
BreakDownOf(d, norm, ans) ==
    IF ans.failed
    THEN <<SubIntent(norm, NormalizeSlots(EmptyBindings, norm), "fallback")>>
    ELSE SubsOrFallback([i \in 1..Len(ans.candidates) |->
                             SubOfCandidate(d, norm, ans.candidates[i])], norm)

BreakDownIntention(d, text, ans) == BreakDownOf(d, Normalize(d, text), ans)

----------------------------------------------------------------------------
(* ActionSelector *)

\* _fmt_param_key: the parts between "_" capitalised and joined
FmtParamKey(key) ==
    CASE key = KType -> <<"TargetType">>
      [] key = KName -> <<"TargetName">>
      [] key = KCount -> <<"Count">>
      [] OTHER -> key

\* ", ".join(param_keys)
RECURSIVE JoinKeys(_)
JoinKeys(keys) ==
    IF keys = <<>> THEN <<>>
    ELSE IF Len(keys) = 1 THEN Head(keys)
    ELSE Head(keys) \o <<",", " ">> \o JoinKeys(Tail(keys))

\* the formatted keys of the rows kg.read returns for an action: rows without a key
\* are left out (the rows are taken in the order the catalog lists the parameters)
RECURSIVE ParamKeysOf(_)
ParamKeysOf(schema) ==
    IF schema = <<>> THEN <<>>
    ELSE (IF KeyOk(Head(schema)) THEN <<FmtParamKey(Head(schema).key.s)>> ELSE <<>>)
         \o ParamKeysOf(Tail(schema))

\* f"{a_name}({', '.join(param_keys)})", or f"{a_name}()"
Signature(a_name, param_keys) == a_name \o <<"(">> \o JoinKeys(param_keys) \o <<")">>

\* known[signature] = a_desc: a later entry of the same signature replaces the value
PutEntry(known, sig, desc) ==
    IF \E i \in 1..Len(known) : known[i].sig = sig
    THEN [i \in 1..Len(known) |-> IF known[i].sig = sig THEN [sig |-> sig, desc |-> desc]
                                   ELSE known[i]]
    ELSE Append(known, [sig |-> sig, desc |-> desc])

\* ActionSelector._to_prompt_format
RECURSIVE ToPromptFormat(_, _, _)
ToPromptFormat(k, actions, known) ==
    IF actions = <<>> THEN known
    ELSE ToPromptFormat(k, Tail(actions),
                        PutEntry(known,
                                 Signature(Head(actions).action.name,
                                           ParamKeysOf(GetActionParams(k, Head(actions).action.name))),
                                 Head(actions).action.description))

\* PutMatch keeping the first match of a name whatever the scores
PutMatchKeepsFirst(action_map, m) ==
    IF \E i \in 1..Len(action_map) : action_map[i].action.name = m.action.name
    THEN action_map
    ELSE Append(action_map, m)

\* "if name not in action_map or match.score > action_map[name].score"
PutMatch(action_map, m) ==
    IF \E i \in 1..Len(action_map) : action_map[i].action.name = m.action.name
    THEN [i \in 1..Len(action_map) |->
             IF action_map[i].action.name = m.action.name /\ RatLt(action_map[i].score, m.score)
             THEN m ELSE action_map[i]]
    ELSE Append(action_map, m)

RECURSIVE PutMatches(_, _)
PutMatches(action_map, ms) ==
    IF ms = <<>> THEN action_map ELSE PutMatches(PutMatch(action_map, Head(ms)), Tail(ms))

\* the selector's outcome: it raised, or the entries it chose; index is the vector
\* index as its match_actions calls left it
Selected(raised, entries, index, action_map) ==
    [raised |-> raised, chosen |-> entries, index |-> index, action_map |-> action_map]

\* the end of select_actions: the catalog read of _to_prompt_format
SelectEnd(k, action_map, fault) ==
    IF fault = "read" /\ action_map # <<>> THEN Selected(TRUE, <<>>, k.index, action_map)
    ELSE Selected(FALSE, ToPromptFormat(k, action_map, <<>>), k.index, action_map)

\* the loop of select_actions over the sub-intents: match_actions(text), no slots
RECURSIVE SelectLoop(_, _, _, _, _)
SelectAfter(d, k, texts, action_map, fault, r) ==
    IF r.raised THEN Selected(TRUE, <<>>, r.index, action_map)
    ELSE SelectLoop(d, [k EXCEPT !.index = r.index], Tail(texts),
                    PutMatches(action_map, r.matches), fault)

SelectLoop(d, k, texts, action_map, fault) ==
    IF texts = <<>> THEN SelectEnd(k, action_map, fault)
    ELSE SelectAfter(d, k, texts, action_map, fault,
                     MatchActions(d, k, DefaultArgs(Head(texts), EmptyBindings), fault))

\* ActionSelector.select_actions
SelectActions(d, k, texts, fault) == SelectLoop(d, k, texts, <<>>, fault)

----------------------------------------------------------------------------
(* ScopeGate.decide *)

\* tools: what decide puts in its message to the reasoning service
Tools(available_actions) ==
    [i \in 1..Len(available_actions) |->
        [name |-> available_actions[i].name,
         description |-> available_actions[i].description]]

ScopeDecision(can_execute, reason) == [can_execute |-> can_execute, reason |-> reason]

\* str(reason).strip() on the reasons of the model
StripReason(reason) ==
    CASE reason = " " -> ""
      [] reason = " not covered " -> "not covered"
      [] OTHER -> reason

\* Decide taking every answer for an approval
DecideAlwaysAllows(ans) ==
    ScopeDecision(TRUE, IF ans.raised THEN "ScopeGate failed; allow by default."
                        ELSE IF StripReason(ans.reason) = "" THEN "No reason provided."
                        ELSE StripReason(ans.reason))

\* decide for the reasoning service's answer ans: the call raised, or the JSON object
\* it returned; a missing can_execute reads as False, a blank reason gets the
\* default text
Decide(ans) ==
    IF ans.raised THEN ScopeDecision(TRUE, "ScopeGate failed; allow by default.")
    ELSE ScopeDecision(ans.can_execute,
                       IF StripReason(ans.reason) = "" THEN "No reason provided."
                       ELSE StripReason(ans.reason))

\* whether decide itself raises: it catches every error of the reasoning service
DecideRaised(ans) == FALSE

----------------------------------------------------------------------------
(* IntentionalAgent.plan_intention *)

\* the text before the first "(" of a text that holds one
RECURSIVE BeforeParen(_)
BeforeParen(s) ==
    IF s = <<>> \/ Head(s) = "(" THEN <<>> ELSE <<Head(s)>> \o BeforeParen(Tail(s))

HasParen(s) == \E i \in 1..Len(s) : s[i] = "("

\* _action_name_from_sig
ActionNameFromSig(sig) ==
    IF HasParen(Strip(sig)) THEN Strip(BeforeParen(Strip(sig))) ELSE Strip(sig)

\* _extract_action_name
ExtractActionName(action_text) ==
    IF Strip(action_text) = <<>> THEN <<>>
    ELSE IF HasParen(Strip(action_text)) THEN Strip(BeforeParen(Strip(action_text)))
    ELSE Strip(action_text)

\* {_action_name_from_sig(k) for k in chosen_actions if k}
AllowedActionNames(entries) ==
    {ActionNameFromSig(entries[i].sig) : i \in {j \in 1..Len(entries) : entries[j].sig # <<>>}}

\* the order of str on the names of the model
NameRank(name) ==
    CASE name = <<"a">> -> 1
      [] name = <<"b">> -> 2
      [] name = <<"c">> -> 3
      [] OTHER -> 4

\* sorted(list(names))
RECURSIVE SortedNames(_)
SortedNames(names) ==
    IF names = {} THEN <<>>
    ELSE LET first == CHOOSE n \in names : \A o \in names : NameRank(n) <= NameRank(o)
         IN  <<first>> \o SortedNames(names \ {first})

Intents(ss) == [i \in 1..Len(ss) |-> ss[i].intent]

\* the nodes validation looks at: type == "atomic" or is_atomic is True
IsAtomicNode(n) == n.type = "atomic" \/ n.is_atomic

\* IsIllegalAtom looking only at the nodes the decomposer marked pre_defined
IsIllegalAtomPreDefinedOnly(n, names) ==
    /\ IsAtomicNode(n)
    /\ n.atomic_source = "pre_defined"
    /\ IsStr(n.action)
    /\ ExtractActionName(n.action.s) # <<>>
    /\ ExtractActionName(n.action.s) \notin names

\* a node validation reports: its action is a str with a name outside the allowed set
IsIllegalAtom(n, names) ==
    /\ IsAtomicNode(n)
    /\ IsStr(n.action)
    /\ ExtractActionName(n.action.s) # <<>>
    /\ ExtractActionName(n.action.s) \notin names

IllegalEntry(n) ==
    [id |-> n.id, action |-> n.action, action_name |-> ExtractActionName(n.action.s)]

\* illegal_atoms, in the order of the walk (parents first, children in order)
RECURSIVE IllegalAtoms(_, _)
IllegalAtoms(ns, names) ==
    IF ns = <<>> THEN <<>>
    ELSE (IF IsIllegalAtom(Head(ns), names) THEN <<IllegalEntry(Head(ns))>> ELSE <<>>)
         \o IllegalAtoms(Tail(ns), names)

\* LeafUnresolved without a reason
LeafUnresolvedSilent(reason, unm, mat, sub_intentions, allowed_actions, illegal, scope_gate) ==
    [outcome |-> "returned", error |-> "", id |-> <<"root">>, depth |-> 0,
     type |-> "leaf_unresolved", reason |-> "",
     sub_plans |-> <<>>, execution_logic |-> <<>>,
     unmatched_sub_intentions |-> unm, matched_sub_intentions |-> mat,
     sub_intentions |-> sub_intentions, allowed_actions |-> allowed_actions,
     illegal_atomic_nodes |-> illegal, scope_gate |-> scope_gate, tree |-> <<>>]

\* a leaf_unresolved result
LeafUnresolved(reason, unm, mat, sub_intentions, allowed_actions, illegal, scope_gate) ==
    [outcome |-> "returned", error |-> "", id |-> <<"root">>, depth |-> 0,
     type |-> "leaf_unresolved", reason |-> reason,
     sub_plans |-> <<>>, execution_logic |-> <<>>,
     unmatched_sub_intentions |-> unm, matched_sub_intentions |-> mat,
     sub_intentions |-> sub_intentions, allowed_actions |-> allowed_actions,
     illegal_atomic_nodes |-> illegal, scope_gate |-> scope_gate, tree |-> <<>>]

\* PlanReturned without the debug entries
PlanReturnedBare(ns, sub_intentions, allowed_actions) ==
    [outcome |-> "returned", error |-> "", id |-> ns[1].id, depth |-> ns[1].depth,
     type |-> ns[1].type, reason |-> "",
     sub_plans |-> SubPlans(ns, 1), execution_logic |-> ns[1].execution_logic,
     unmatched_sub_intentions |-> <<>>, matched_sub_intentions |-> <<>>,
     sub_intentions |-> <<>>, allowed_actions |-> <<>>,
     illegal_atomic_nodes |-> <<>>, scope_gate |-> "", tree |-> ns]

\* the planner's tree returned, with its debug entries
PlanReturned(ns, sub_intentions, allowed_actions) ==
    [outcome |-> "returned", error |-> "", id |-> ns[1].id, depth |-> ns[1].depth,
     type |-> ns[1].type, reason |-> "",
     sub_plans |-> SubPlans(ns, 1), execution_logic |-> ns[1].execution_logic,
     unmatched_sub_intentions |-> <<>>, matched_sub_intentions |-> <<>>,
     sub_intentions |-> sub_intentions, allowed_actions |-> allowed_actions,
     illegal_atomic_nodes |-> <<>>, scope_gate |-> "", tree |-> ns]

\* an error of a collaborator leaving plan_intention
PlanIntentionRaised(error) == [NoResult EXCEPT !.outcome = "raised", !.error = error]

\* Validated returning the planner's tree whatever validation found
ValidatedLenient(ns, ss, names, illegal) == PlanReturned(ns, Intents(ss), SortedNames(names))

\* step 5, plan validation, and the return that follows it
Validated(ns, ss, names, illegal) ==
    IF illegal # <<>>
    THEN LeafUnresolved("Planner produced actions outside allowed set.", <<>>, Intents(ss),
                        Intents(ss), SortedNames(names), illegal, "")
    ELSE PlanReturned(ns, Intents(ss), SortedNames(names))

Validate(ns, ss, names) == Validated(ns, ss, names, IllegalAtoms(ns, names))

----------------------------------------------------------------------------
(* Spec: one plan_intention request, from the call to its return or its error *)

Candidate0(name, description, sl) == [name |-> name, description |-> description, slots |-> sl]

\* parse_intent's answers: a failure, no candidate, a candidate with a resolvable
\* slot, an abstract candidate without slots, two candidates of which the first
\* carries a blank slot, and a candidate whose only slot is a name
ParseAnswers ==
    {[failed |-> TRUE, candidates |-> <<>>],
     [failed |-> FALSE, candidates |-> <<>>],
     [failed |-> FALSE,
      candidates |-> <<Candidate0(<<"move">>, <<" ", "go">>,
                                  [k \in {KType} |-> StrV(<<"booth">>)])>>],
     [failed |-> FALSE, candidates |-> <<Candidate0(<<"zz">>, <<>>, EmptyBindings)>>],
     [failed |-> FALSE,
      candidates |-> <<Candidate0(<<>>, <<"go">>, [k \in {KType} |-> StrV(<<" ">>)]),
                       Candidate0(<<"find", " ", "x">>, <<>>, EmptyBindings)>>],
     [failed |-> FALSE,
      candidates |-> <<Candidate0(<<"go">>, <<>>, [k \in {KName} |-> StrV(<<"A12">>)])>>]}

\* the catalogs of a request: empty; one action behind a usable index; two actions
\* of which one is below the similarity floor; two actions above the floor; one
\* action whose index is still to be created
AgentCatalogs ==
    {[actions |-> <<>>, dataDim |-> EmbedDim, index |-> OnlineIndex],
     [actions |-> <<Action(ActionNames[1], ConstSim(80),
                           <<Param(StrV(KType), "enum", TRUE)>>)>>,
      dataDim |-> EmbedDim, index |-> OnlineIndex],
     [actions |-> <<Action(ActionNames[1], ConstSim(80),
                           <<Param(StrV(KType), "enum", TRUE)>>),
                    Action(ActionNames[2], ConstSim(40), <<>>)>>,
      dataDim |-> EmbedDim, index |-> OnlineIndex],
     [actions |-> <<Action(ActionNames[1], ConstSim(90),
                           <<Param(StrV(KType), "enum", TRUE)>>),
                    Action(ActionNames[2], ConstSim(80), <<>>)>>,
      dataDim |-> EmbedDim, index |-> OnlineIndex],
     [actions |-> <<Action(ActionNames[1], ConstSim(80), <<>>)>>,
      dataDim |-> EmbedDim,
      index |-> [exists |-> FALSE, dim |-> 0, readable |-> TRUE, online |-> FALSE]]}

Configs ==
    {[enable_scope_gate |-> FALSE, scope_gate_strict |-> TRUE],
     [enable_scope_gate |-> TRUE, scope_gate_strict |-> TRUE],
     [enable_scope_gate |-> TRUE, scope_gate_strict |-> FALSE]}

\* the reasoning service's answers to the scope gate: its call fails, or it answers
\* with or without can_execute, with a padded, a blank or no reason
ScopeAnswers ==
    {[raised |-> TRUE, can_execute |-> FALSE, reason |-> ""],
     [raised |-> FALSE, can_execute |-> TRUE, reason |-> "covered"],
     [raised |-> FALSE, can_execute |-> FALSE, reason |-> " not covered "],
     [raised |-> FALSE, can_execute |-> FALSE, reason |-> " "],
     [raised |-> FALSE, can_execute |-> FALSE, reason |-> ""]}

\* the decomposer's answers within a request: a failure, no sub-intent, and lists
\* that mix allowed, unlisted, blank and missing actions with composite sub-intents
AgentPlanAnswers ==
    {Failed, AnswerOf(<<>>), AnswerOf(<<"pre_defined">>), AnswerOf(<<"composite">>),
     AnswerOf(<<"new_generated", "composite">>), AnswerOf(<<"blank", "untyped">>),
     AnswerOf(<<"composite", "pre_defined">>)}

\* what can go wrong in a match_actions call, and in select_actions
AgentMatchFaults == {"none", "embed", "index", "search_all", "params"}
AgentSelectFaults == {"none", "embed", "search_all", "read"}

Init ==
    /\ pc = "request"
    /\ ServiceIdle
    /\ domain \in Profiles
    /\ ScoreIdle
    /\ kg \in AgentCatalogs
    /\ calls = <<>>
    /\ maxDepth = DefaultMaxDepth
    /\ nodes = <<>>
    /\ stack = <<>>
    /\ dcalls = <<>>
    /\ intention \in Intentions
    /\ config \in Configs
    /\ subs = <<>>
    /\ unmatched = <<>>
    /\ matched = <<>>
    /\ chosen = <<>>
    /\ allowed = {}
    /\ invoked = {}
    /\ parsed = NoAnswer
    /\ gate = NoAnswer
    /\ trace = <<>>
    /\ result = NoResult

Norm == Normalize(domain, intention)

\* the answer ans of a collaborator, as received
Asked(ans) == [f \in DOMAIN ans \cup {"asked"} |-> IF f = "asked" THEN TRUE ELSE ans[f]]

\* one call plan_intention makes to a stage, with what it hands over
StageCall(stage, text, texts, actions) ==
    [stage |-> stage, text |-> text, texts |-> texts, actions |-> actions]

\* AllowedActionsBasic listing the whole catalog
AllowedActionsBasicOfCatalog(entries) ==
    [i \in 1..Len(kg.actions) |-> [name |-> kg.actions[i].name,
                                   description |-> kg.actions[i].description]]

\* allowed_actions_basic: name and description of every entry of chosen_actions
AllowedActionsBasic(entries) ==
    [i \in 1..Len(entries) |-> [name |-> ActionNameFromSig(entries[i].sig),
                                description |-> entries[i].desc]]

\* norm = normalize(intention); subs = break_down_intention(norm)
BreakDown ==
    /\ pc = "request"
    /\ \E ans \in ParseAnswers :
          /\ parsed' = Asked(ans)
          /\ subs' = BreakDownIntention(domain, Norm, ans)
    /\ trace' = Append(trace, StageCall("break_down", Norm, <<>>, <<>>))
    /\ pc' = "matching"
    /\ UNCHANGED <<domain, serviceVars, scoreVars, matchVars, planVars, intention, config, unmatched,
                   matched, chosen, allowed, invoked, gate, result>>

\* the rest of one iteration of the loop over subs, given what match_actions did
AfterMatch(s, last, r) ==
    /\ kg' = [kg EXCEPT !.index = r.index]
    /\ IF r.raised
       THEN /\ result' = PlanIntentionRaised("match_actions")
            /\ pc' = "done"
            /\ UNCHANGED <<unmatched, matched>>
       ELSE /\ unmatched' = IF r.matches = <<>> THEN Append(unmatched, s.intent)
                            ELSE unmatched
            /\ matched' = IF r.matches = <<>> THEN matched
                          ELSE Append(matched,
                                      [intent |-> s.intent,
                                       names |-> [j \in 1..Len(r.matches) |->
                                                     r.matches[j].action.name]])
            /\ IF last /\ unmatched' # <<>>
               THEN /\ result' = LeafUnresolved("Some sub-intents have no matched actions.",
                                                unmatched', Intents(matched'), Intents(subs),
                                                <<>>, <<>>, "")
                    /\ pc' = "done"
               ELSE /\ result' = result
                    /\ pc' = IF last THEN "selecting" ELSE "matching"

\* what a match_actions call of plan_intention was given, and what it did: the rows
\* it found, the parameter schemas it read and the matches it returned
MatchRecord(a, r) ==
    [args |-> a, raised |-> r.raised, rows |-> r.rows, lookups |-> r.lookups,
     matches |-> r.matches]

\* ms = match_actions(s.intent, slots=s.slots) for the next sub-intent
MatchSubIntent ==
    /\ pc = "matching"
    /\ \E fault \in AgentMatchFaults :
          LET s == subs[Len(unmatched) + Len(matched) + 1]
              r == MatchActions(domain, kg, DefaultArgs(s.intent, s.slots), fault)
          IN  /\ AfterMatch(s, Len(unmatched) + Len(matched) + 1 = Len(subs), r)
              /\ calls' = Append(calls, MatchRecord(DefaultArgs(s.intent, s.slots), r))
    /\ trace' = Append(trace, StageCall("match_actions",
                                        subs[Len(unmatched) + Len(matched) + 1].intent,
                                        <<>>, <<>>))
    /\ UNCHANGED <<domain, serviceVars, scoreVars, planVars, intention, config, subs, chosen,
                   allowed, invoked, parsed, gate>>

\* AfterSelect without the return on an empty allowed set
AfterSelectGoesOn(sel) ==
    /\ kg' = [kg EXCEPT !.index = sel.index]
    /\ IF sel.raised
       THEN /\ result' = PlanIntentionRaised("select_actions")
            /\ pc' = "done"
            /\ UNCHANGED <<chosen, allowed>>
       ELSE /\ chosen' = sel.chosen
            /\ allowed' = AllowedActionNames(sel.chosen)
            /\ result' = result
            /\ pc' = IF config.enable_scope_gate THEN "scoping" ELSE "planning"

\* the rest of step 2, given what select_actions did
AfterSelect(sel) ==
    /\ kg' = [kg EXCEPT !.index = sel.index]
    /\ IF sel.raised
       THEN /\ result' = PlanIntentionRaised("select_actions")
            /\ pc' = "done"
            /\ UNCHANGED <<chosen, allowed>>
       ELSE /\ chosen' = sel.chosen
            /\ allowed' = AllowedActionNames(sel.chosen)
            /\ IF allowed' = {}
               THEN /\ result' = LeafUnresolved("No allowed actions selected.", <<>>,
                                                Intents(matched), Intents(subs), <<>>, <<>>, "")
                    /\ pc' = "done"
               ELSE /\ result' = result
                    /\ pc' = IF config.enable_scope_gate THEN "scoping" ELSE "planning"

\* chosen_actions = selector.select_actions(...), and allowed_action_names
Select ==
    /\ pc = "selecting"
    /\ invoked' = invoked \cup {"selector"}
    /\ \E fault \in AgentSelectFaults :
          AfterSelect(SelectActions(domain, kg, Intents(matched), fault))
    /\ trace' = Append(trace, StageCall("select_actions", <<>>, Intents(matched), <<>>))
    /\ UNCHANGED <<domain, serviceVars, scoreVars, calls, planVars, intention, config, subs, unmatched,
                   matched, parsed, gate>>

\* step 3 given the gate's decision
AfterDecide(decision) ==
    IF ~decision.can_execute
    THEN /\ result' = LeafUnresolved(IF decision.reason = "" THEN "Scope gate rejected."
                                     ELSE decision.reason,
                                     <<>>, Intents(subs), Intents(subs), SortedNames(allowed),
                                     <<>>, "rejected")
         /\ pc' = "done"
    ELSE /\ result' = result
         /\ pc' = "planning"

\* step 3 when decide raised: the strict policy rejects, the lenient one goes on
AfterDecideRaised ==
    IF config.scope_gate_strict
    THEN /\ result' = LeafUnresolved("Scope gate failed", <<>>, Intents(subs), Intents(subs),
                                     SortedNames(allowed), <<>>, "error")
         /\ pc' = "done"
    ELSE /\ result' = result
         /\ pc' = "planning"

\* decision = scope_gate.decide(...), when enable_scope_gate is set
ScopeCheck ==
    /\ pc = "scoping"
    /\ invoked' = invoked \cup {"scope_gate"}
    /\ \E ans \in ScopeAnswers :
          /\ gate' = Asked(ans)
          /\ IF DecideRaised(ans) THEN AfterDecideRaised ELSE AfterDecide(Decide(ans))
    /\ trace' = Append(trace, StageCall("scope_gate", Norm, <<>>,
                                        Tools(AllowedActionsBasic(chosen))))
    /\ UNCHANGED <<domain, serviceVars, scoreVars, matchVars, planVars, intention, config, subs, unmatched,
                   matched, chosen, allowed, parsed>>

\* plan() has returned when no frame is left: validation follows and ends the request
AfterPlanStep(tr) ==
    IF stack' = <<>>
    THEN /\ result' = Validate(nodes', subs, allowed)
         /\ trace' = Append(tr, StageCall("validate", <<>>, <<>>, <<>>))
         /\ pc' = "done"
    ELSE /\ result' = result
         /\ trace' = tr
         /\ pc' = "planning"

\* plan = planner.plan(norm, chosen_actions): the call for the root
PlanIntentionRoot ==
    /\ pc = "planning"
    /\ nodes = <<>>
    /\ invoked' = invoked \cup {"planner"}
    /\ \E resp \in AgentPlanAnswers :
          PlanApply(PlanEnter(nodes, stack, dcalls, <<"root">>, Norm, 0, <<"N/A">>, 0,
                              maxDepth, resp))
    /\ AfterPlanStep(Append(trace, StageCall("plan", Norm, <<>>, chosen)))
    /\ UNCHANGED <<domain, serviceVars, scoreVars, matchVars, maxDepth, intention, config, subs,
                   unmatched, matched, chosen, allowed, parsed, gate>>

\* the planner's loop over the sub-intents, one iteration at a time
PlanIntentionStep ==
    /\ pc = "planning"
    /\ nodes # <<>>
    /\ \E resp \in AgentPlanAnswers :
          PlanApply(PlanLoop(nodes, stack, dcalls, maxDepth, resp))
    /\ AfterPlanStep(trace)
    /\ UNCHANGED <<domain, serviceVars, scoreVars, matchVars, maxDepth, intention, config, subs,
                   unmatched, matched, chosen, allowed, invoked, parsed, gate>>

Next ==
    \/ BreakDown
    \/ MatchSubIntent
    \/ Select
    \/ ScopeCheck
    \/ PlanIntentionRoot
    \/ PlanIntentionStep

Spec == Init /\ [][Next]_vars

----------------------------------------------------------------------------
(* SpecSelect: select_actions called on a list of texts, then on a reordering of it *)

\* similarities that depend on the text: hi for the texts with "go", lo for the others
SimBy(hi, lo) == [t \in NormTexts |-> IF IsSubstring(<<"go">>, t) THEN hi ELSE lo]

\* catalogs: each text matching another action; an action matched by both texts with
\* different scores; equal scores with a schema; the first one behind a missing index
SelectCatalogs ==
    {[actions |-> <<>>, dataDim |-> EmbedDim, index |-> OnlineIndex],
     [actions |-> <<Action(ActionNames[1], SimBy(80, 40), <<>>),
                    Action(ActionNames[2], SimBy(40, 80), <<>>)>>,
      dataDim |-> EmbedDim, index |-> OnlineIndex],
     [actions |-> <<Action(ActionNames[1], SimBy(80, 90), <<>>),
                    Action(ActionNames[2], SimBy(85, 40), <<Param(StrV(KName), "string", FALSE)>>)>>,
      dataDim |-> EmbedDim, index |-> OnlineIndex],
     [actions |-> <<Action(ActionNames[1], ConstSim(80), <<Param(StrV(KType), "enum", TRUE)>>),
                    Action(ActionNames[2], SimBy(90, 70), <<>>)>>,
      dataDim |-> EmbedDim, index |-> OnlineIndex],
     [actions |-> <<Action(ActionNames[1], SimBy(80, 40), <<>>),
                    Action(ActionNames[2], SimBy(40, 80), <<>>)>>,
      dataDim |-> EmbedDim,
      index |-> [exists |-> FALSE, dim |-> 0, readable |-> TRUE, online |-> FALSE]]}

\* the lists of sub-intent texts handed to select_actions
SelectLists == UNION {[1..n -> NormTexts] : n \in 0..MaxSubs + 1}

\* the orderings of a list
Reorderings(texts) ==
    {[i \in 1..Len(texts) |-> texts[p[i]]] : p \in Permutations(1..Len(texts))}

InitSelect ==
    /\ pc = "select_ready"
    /\ ServiceIdle
    /\ domain \in Profiles
    /\ ScoreIdle
    /\ kg \in SelectCatalogs
    /\ calls = <<>>
    /\ PlanIdle
    /\ AgentIdle

\* one select_actions call: its record, and the catalog it leaves behind
SelectRecord(texts, fault, sel) ==
    [texts |-> texts, fault |-> fault, raised |-> sel.raised, chosen |-> sel.chosen,
     action_map |-> sel.action_map, index |-> sel.index]

DoSelect(texts, fault) ==
    /\ calls' = Append(calls, SelectRecord(texts, fault,
                                           SelectActions(domain, kg, texts, fault)))
    /\ kg' = [kg EXCEPT !.index = SelectActions(domain, kg, texts, fault).index]

SelectCall ==
    /\ pc = "select_ready"
    /\ \E texts \in SelectLists, fault \in AgentSelectFaults : DoSelect(texts, fault)
    /\ pc' = "selected"
    /\ UNCHANGED <<domain, serviceVars, scoreVars, planVars, agentVars>>

\* the same sub-intents in another order, with the collaborators behaving the same
SelectReordered ==
    /\ pc = "selected"
    /\ \E texts \in Reorderings(calls[1].texts) : DoSelect(texts, calls[1].fault)
    /\ pc' = "reselected"
    /\ UNCHANGED <<domain, serviceVars, scoreVars, planVars, agentVars>>

NextSelect == SelectCall \/ SelectReordered

SpecSelect == InitSelect /\ [][NextSelect]_vars

----------------------------------------------------------------------------
(* Claims about one request *)

ResultReturned == pc = "done" /\ result.outcome = "returned"

PlanTreeReturned == ResultReturned /\ result.type # "leaf_unresolved"

\* the planner ran to its end
PlannerReturned == pc = "done" /\ "planner" \in invoked /\ nodes # <<>> /\ stack = <<>>

\* the node carries a str action with a non-empty name before its first "("
HasNamedAction(n) == IsStr(n.action) /\ ExtractActionName(n.action.s) # <<>>

\* C1 (as amended): in every plan tree plan_intention returns with a root type other
\* than leaf_unresolved, every node flagged atomic (type atomic or is_atomic true)
\* whose action is a string with a non-empty extracted name has that name in the
\* allowed-action name set passed to the planner; atomic-flagged nodes without an
\* action (leaf_forced_atomic, leaf_no_children) or with a blank or non-string action
\* are returned as they are.
ReturnedAtomsAllowed ==
    PlanTreeReturned =>
        \A i \in 1..Len(result.tree) :
            (IsAtomicNode(result.tree[i]) /\ HasNamedAction(result.tree[i]))
                => ExtractActionName(result.tree[i].action.s) \in allowed

\* C1, witness: a returned tree with an atomic node that names an allowed action
\* and an atomic-flagged node that has no action
AllowedAtomReturned ==
    /\ PlanTreeReturned
    /\ \E i, j \in 1..Len(result.tree) :
          /\ IsAtomicNode(result.tree[i]) /\ HasNamedAction(result.tree[i])
          /\ IsAtomicNode(result.tree[j]) /\ ~IsStr(result.tree[j].action)

\* C1 (as stated): every atomic-flagged node of a returned tree has an action whose
\* extracted name is in the allowed-action name set
EveryAtomHasAllowedAction ==
    PlanTreeReturned =>
        \A i \in 1..Len(result.tree) :
            IsAtomicNode(result.tree[i]) =>
                /\ IsStr(result.tree[i].action)
                /\ ExtractActionName(result.tree[i].action.s) \in allowed

\* C2 (as stated): when match_actions returned an empty list for a sub-intent,
\* plan_intention returns a leaf_unresolved result listing the unmatched intents in
\* order and the matched ones, and it calls neither the selector, nor the scope
\* gate, nor the planner.
UnmatchedEndsUnresolved ==
    (pc = "done" /\ unmatched # <<>>) =>
        /\ result.outcome = "returned"
        /\ result.type = "leaf_unresolved"
        /\ result.unmatched_sub_intentions = unmatched
        /\ result.matched_sub_intentions = Intents(matched)
        /\ invoked = {}

\* C3 (as stated): whatever collaborator fails, plan_intention ends by returning a
\* plan tree or a leaf_unresolved result, never by raising.
NeverRaises == pc = "done" => result.outcome = "returned"

\* C4 (as amended): if the planner's tree holds an atomic node whose action is a
\* string with a non-empty name (the text before the first "(") outside the
\* allowed-action name set, plan_intention returns a leaf_unresolved result whose
\* debug.illegal_atomic_nodes has an entry with that node's id, action and action
\* name, and the tree is not returned; an atomic node whose action is missing, not
\* a string or blank does not make the plan illegal.
IllegalAtomRejected ==
    PlannerReturned =>
        /\ \A i \in 1..Len(nodes) :
              ( /\ IsAtomicNode(nodes[i])
                /\ HasNamedAction(nodes[i])
                /\ ExtractActionName(nodes[i].action.s) \notin allowed )
              => /\ ResultReturned
                 /\ result.type = "leaf_unresolved"
                 /\ result.tree = <<>>
                 /\ \E e \in 1..Len(result.illegal_atomic_nodes) :
                       result.illegal_atomic_nodes[e] =
                           [id |-> nodes[i].id, action |-> nodes[i].action,
                            action_name |-> ExtractActionName(nodes[i].action.s)]
        /\ (\A i \in 1..Len(nodes) :
                (IsAtomicNode(nodes[i]) /\ HasNamedAction(nodes[i]))
                    => ExtractActionName(nodes[i].action.s) \in allowed)
           => PlanTreeReturned

\* C4, witness: a tree with an atomic node naming an unlisted action was rejected
IllegalAtomSeen ==
    /\ PlannerReturned
    /\ result.type = "leaf_unresolved"
    /\ result.illegal_atomic_nodes # <<>>
    /\ \E i \in 1..Len(nodes) :
          /\ IsAtomicNode(nodes[i])
          /\ HasNamedAction(nodes[i])
          /\ ExtractActionName(nodes[i].action.s) \notin allowed

\* the text before the first "(" of a node's action; none for a missing action
NameBeforeParen(n) == IF IsStr(n.action) THEN Strip(BeforeParen(n.action.s)) ELSE <<>>

\* C4 (as stated): any atomic node whose action name is outside the allowed-action
\* name set makes plan_intention return leaf_unresolved with the node listed
AnyUnlistedAtomRejected ==
    PlannerReturned =>
        \A i \in 1..Len(nodes) :
            (nodes[i].type = "atomic" /\ IsStr(nodes[i].action)
                /\ NameBeforeParen(nodes[i]) \notin allowed)
            => /\ ResultReturned
               /\ result.type = "leaf_unresolved"
               /\ \E e \in 1..Len(result.illegal_atomic_nodes) :
                     result.illegal_atomic_nodes[e].id = nodes[i].id

\* the reasoning service answered the scope gate, and said the intent cannot be done
GateSaidNo == gate.asked /\ ~gate.raised /\ ~gate.can_execute

\* C12: with the scope check enabled, when the scope-check collaborator reports
\* can_execute = false, plan_intention returns a leaf_unresolved result whose reason
\* is not empty and is the collaborator's stated reason (trimmed) when it stated
\* one, and the planner is not invoked for the request.
ScopeRejectionEndsRequest ==
    GateSaidNo =>
        /\ config.enable_scope_gate
        /\ ResultReturned
        /\ result.type = "leaf_unresolved"
        /\ result.reason # ""
        /\ StripReason(gate.reason) # "" => result.reason = StripReason(gate.reason)
        /\ "planner" \notin invoked
        /\ nodes = <<>>
        /\ dcalls = <<>>

\* C12, witness: a request ended by the gate's refusal, carrying its stated reason
ScopeRejectionSeen ==
    /\ GateSaidNo
    /\ gate.reason = " not covered "
    /\ result.type = "leaf_unresolved"
    /\ result.reason = "not covered"
    /\ "planner" \notin invoked

\* the reasoning-service call of the scope gate failed
GateCallFailed == gate.asked /\ gate.raised

\* C13 (as stated): with the scope check enabled, when the scope-check collaborator
\* call itself fails, the strict policy (scope_gate_strict true) makes plan_intention
\* return leaf_unresolved without invoking the planner, and the lenient policy lets
\* the request go on to the planner.
ScopeFailureFollowsPolicy ==
    GateCallFailed =>
        IF config.scope_gate_strict
        THEN /\ ResultReturned
             /\ result.type = "leaf_unresolved"
             /\ "planner" \notin invoked
        ELSE /\ pc \in {"planning", "done"}
             /\ pc = "done" => "planner" \in invoked

\* the sub-intent extraction failed or yielded no candidate
NothingExtracted == parsed.asked /\ (parsed.failed \/ parsed.candidates = <<>>)

\* C14: break_down_intention does not raise and returns a non-empty list of
\* SubIntent; when the sub-intent extraction fails or yields no candidate, the list
\* is exactly one SubIntent whose intent is the normalized text it was given.
BreakDownFallsBack ==
    parsed.asked =>
        /\ pc # "request"
        /\ (result.outcome = "raised" => result.error # "break_down_intention")
        /\ Len(subs) >= 1
        /\ NothingExtracted =>
              /\ Len(subs) = 1
              /\ subs[1].intent = Normalize(domain, Norm)

\* C14, witness: the extraction failed on a text that normalization rewrites, and the
\* single sub-intent carries the rewritten text
FallbackAfterFailure ==
    /\ parsed.asked
    /\ parsed.failed
    /\ Norm # intention
    /\ subs = <<SubIntent(Norm, NormalizeSlots(EmptyBindings, Norm), "fallback")>>

\* the decomposer failed on the root intent: decompose returned None to the root call
RootDecompositionFailed ==
    /\ pc = "done"
    /\ nodes # <<>>
    /\ nodes[1].error = "Decomposition failed"

\* C15 (as stated): when the decomposition collaborator fails while the root intent
\* is being planned, plan_intention returns a leaf_unresolved result or propagates
\* the error, and never returns a plan tree whose root type is not leaf_unresolved.
RootDecompositionFailureIsFatal ==
    RootDecompositionFailed =>
        \/ result.outcome = "raised"
        \/ (result.outcome = "returned" /\ result.type = "leaf_unresolved")

\* the names of the actions match_actions returned in step 1 for some sub-intent
Step1Names == UNION {{matched[i].names[j] : j \in 1..Len(matched[i].names)} :
                        i \in 1..Len(matched)}

\* C16 (as stated): every action name of the allowed set, the decomposer's tool list
\* and the validator's allow-list, is the name of an action in the list match_actions
\* returned, with the sub-intent's slots and the gates applied, for at least one
\* sub-intent of the request.
AllowedWereMatched == allowed \subseteq Step1Names

----------------------------------------------------------------------------
(* The order of the stages within one request *)

StageNames(tr) == [i \in 1..Len(tr) |-> tr[i].stage]

\* every stage plan_intention can call for the request's sub-intents and
\* configuration, in the order of its code
AllStages ==
    <<"break_down">> \o [i \in 1..Len(subs) |-> "match_actions"] \o <<"select_actions">>
    \o (IF config.enable_scope_gate THEN <<"scope_gate">> ELSE <<>>) \o <<"plan", "validate">>

IsPrefix(s, t) == Len(s) <= Len(t) /\ \A i \in 1..Len(s) : s[i] = t[i]

Called(stage) == \E i \in 1..Len(trace) : trace[i].stage = stage

----------------------------------------------------------------------------
(* The successful return *)

\* no node flagged atomic names an action outside the allowed set
NoOutsideAtom ==
    \A i \in 1..Len(nodes) :
        (IsAtomicNode(nodes[i]) /\ HasNamedAction(nodes[i]))
            => ExtractActionName(nodes[i].action.s) \in allowed

EveryStagePassed ==
    /\ pc = "done"
    /\ unmatched = <<>>
    /\ Intents(matched) = Intents(subs)
    /\ allowed # {}
    /\ ~GateSaidNo
    /\ NoOutsideAtom

\* C24: a request whose sub-intents all matched, whose allowed set is non-empty,
\* that the scope check did not reject and whose planned tree names no atomic
\* action outside the allowed set returns the planner's tree (root type other
\* than leaf_unresolved) with debug.sub_intentions the sub-intent texts in order
\* and debug.allowed_actions the sorted allowed names.
SuccessReturnsPlanWithDebug ==
    EveryStagePassed =>
        /\ result.outcome = "returned"
        /\ nodes # <<>>
        /\ result.tree = nodes
        /\ result.type = nodes[1].type
        /\ result.type # "leaf_unresolved"
        /\ result.sub_intentions = Intents(subs)
        /\ result.allowed_actions = SortedNames(allowed)

\* reached: a returned tree with an allowed atomic action, for a request with a
\* scope check and two allowed actions
PlanWithDebugReturned ==
    /\ EveryStagePassed
    /\ gate.asked
    /\ Cardinality(allowed) = 2
    /\ \E i \in 1..Len(nodes) : nodes[i].type = "atomic" /\ HasNamedAction(nodes[i])

----------------------------------------------------------------------------
(* The shape of a policy rejection *)

\* the loop over the sub-intents ended with a sub-intent that has no match
RejectedUnmatched ==
    pc = "done" /\ Len(unmatched) + Len(matched) = Len(subs) /\ unmatched # <<>>

\* select_actions returned and nothing is allowed
RejectedEmptyAllowed ==
    pc = "done" /\ Called("select_actions") /\ result.error # "select_actions" /\ allowed = {}

\* the planner's tree names an atomic action outside the allowed set
RejectedIllegalPlan == PlannerReturned /\ IllegalAtoms(nodes, allowed) # <<>>

PolicyRejection ==
    RejectedUnmatched \/ RejectedEmptyAllowed \/ GateSaidNo \/ RejectedIllegalPlan

----------------------------------------------------------------------------
(* The selector and the order of the sub-intents *)

EntrySet(entries) == {entries[i] : i \in 1..Len(entries)}

\* what match_actions returns for text t within the call c
MatchesFor(c, t) == MatchActions(domain, kg, DefaultArgs(t, EmptyBindings), c.fault).matches

\* the matches of the named action over the texts of the call c
MatchesOfName(c, name) ==
    {m \in UNION {EntrySet(MatchesFor(c, c.texts[i])) : i \in 1..Len(c.texts)} :
        m.action.name = name}

MatchedNames(c) ==
    {m.action.name :
        m \in UNION {EntrySet(MatchesFor(c, c.texts[i])) : i \in 1..Len(c.texts)}}

\* C26: select_actions returns the same set of signature-to-description entries
\* (or fails alike) for a list of sub-intents and for any reordering of it; its
\* result has one entry per matched action name, and the match it keeps for a name
\* is one with the highest score among the matches of that name.
SelectionIgnoresOrder ==
    /\ pc = "reselected" =>
          /\ calls[1].raised = calls[2].raised
          /\ EntrySet(calls[1].chosen) = EntrySet(calls[2].chosen)
    /\ \A n \in 1..Len(calls) :
          ~calls[n].raised =>
              /\ \A i, j \in 1..Len(calls[n].chosen) :
                    ActionNameFromSig(calls[n].chosen[i].sig)
                        = ActionNameFromSig(calls[n].chosen[j].sig) => i = j
              /\ {ActionNameFromSig(calls[n].chosen[i].sig) : i \in 1..Len(calls[n].chosen)}
                    = MatchedNames(calls[n])
              /\ \A i, j \in 1..Len(calls[n].action_map) :
                    calls[n].action_map[i].action.name = calls[n].action_map[j].action.name
                        => i = j
              /\ \A i \in 1..Len(calls[n].action_map) :
                    \A m \in MatchesOfName(calls[n], calls[n].action_map[i].action.name) :
                        ~RatLt(calls[n].action_map[i].score, m.score)

\* reached: two different orderings of two texts that match the same action with
\* different scores, the lower score coming first in one of them
ReorderedWithBetterLater ==
    /\ pc = "reselected"
    /\ ~calls[1].raised
    /\ Len(calls[1].texts) = 2
    /\ calls[1].texts # calls[2].texts
    /\ \E name \in MatchedNames(calls[1]) :
          \E m1 \in EntrySet(MatchesFor(calls[1], calls[1].texts[1])) :
          \E m2 \in EntrySet(MatchesFor(calls[1], calls[1].texts[2])) :
              m1.action.name = name /\ m2.action.name = name /\ RatLt(m1.score, m2.score)

----------------------------------------------------------------------------
(* What the scope check is given *)

ScopeCalls == {i \in 1..Len(trace) : trace[i].stage = "scope_gate"}

CatalogHas(name, description) ==
    \E j \in 1..Len(kg.actions) :
        kg.actions[j].name = name /\ kg.actions[j].description = description

\* C27: the scope check is handed the normalized top-level intent and one entry
\* per signature the selector chose, holding that action's name and description
\* and nothing else; the names passed are exactly the allowed action names, so no
\* action outside the allowed set is passed.
ScopeCheckSeesAllowedOnly ==
    \A c \in ScopeCalls :
        /\ config.enable_scope_gate
        /\ trace[c].text = Norm
        /\ Len(trace[c].actions) = Len(chosen)
        /\ \A i \in 1..Len(chosen) :
              /\ DOMAIN trace[c].actions[i] = {"name", "description"}
              /\ trace[c].actions[i].name = ActionNameFromSig(chosen[i].sig)
              /\ trace[c].actions[i].description = chosen[i].desc
              /\ CatalogHas(trace[c].actions[i].name, trace[c].actions[i].description)
        /\ {trace[c].actions[i].name : i \in 1..Len(trace[c].actions)} = allowed

\* reached: a scope check for a request whose allowed set is one of the two
\* actions of the catalog
ScopeCheckOnPartOfCatalog ==
    /\ ScopeCalls # {}
    /\ Cardinality(allowed) = 1
    /\ Len(kg.actions) = 2

----------------------------------------------------------------------------
(* SpecExtend: match_actions against a catalog, then against the same catalog with
   one more optional parameter in the schema of its action *)

ExtendSchemas ==
    {<<>>,
     <<Param(StrV(KType), "enum", TRUE)>>,
     <<Param(StrV(KType), "enum", FALSE)>>,
     <<Param(StrV(KName), "string", FALSE)>>,
     <<Param(StrV(KType), "enum", TRUE), Param(StrV(KName), "string", TRUE)>>}

ExtraParams ==
    {Param(StrV(KName), "string", FALSE), Param(StrV(KCount), "integer", FALSE),
     Param(StrV(KType), "enum", FALSE)}

\* the catalog: one action with schema sch
ExtendCatalog(sc, sch) ==
    [actions |-> <<Action(ActionNames[1], ConstSim(sc), sch)>>,
     dataDim |-> EmbedDim, index |-> OnlineIndex]

\* the schema ps with parameter p added, as get_action_params orders it: required
\* parameters first, then by key
RECURSIVE InsertParam(_, _)
InsertParam(ps, p) ==
    IF ps = <<>> THEN <<p>>
    ELSE IF (Head(ps).required /\ ~p.required)
            \/ (Head(ps).required = p.required /\ KeyRank(Head(ps).key) < KeyRank(p.key))
    THEN <<Head(ps)>> \o InsertParam(Tail(ps), p)
    ELSE <<p>> \o ps

InitExtend ==
    /\ pc = "extend_ready"
    /\ ServiceIdle
    /\ domain \in Profiles
    /\ slots = EmptyBindings
    /\ params \in ExtendSchemas
    /\ scored = NoScore
    /\ kg \in {ExtendCatalog(sc, params) : sc \in {40, 80}}
    /\ calls = <<>>
    /\ PlanIdle
    /\ AgentIdle

MatchBase ==
    /\ pc = "extend_ready"
    /\ \E a \in DefaultMatchArgs, fault \in {"none", "params"} : DoMatch(a, fault)
    /\ pc' = "base_matched"
    /\ UNCHANGED <<domain, serviceVars, scoreVars, planVars, agentVars>>

\* the same call once the action has one more optional parameter, of a key that the
\* schema does not have and that the call's slots do not resolve
MatchExtended ==
    /\ pc = "base_matched"
    /\ \E p \in ExtraParams :
          /\ \A i \in 1..Len(kg.actions[1].schema) : kg.actions[1].schema[i].key # p.key
          /\ Unresolved(GetSlotValue(domain, EffectiveSlots(calls[1].args.slots), p.key.s))
          /\ calls' = Append(calls,
                             CallRecord(calls[1].args, calls[1].fault,
                                        MatchActions(domain,
                                                     [kg EXCEPT !.actions[1].schema =
                                                                    InsertParam(@, p)],
                                                     calls[1].args, calls[1].fault)))
          /\ kg' = [kg EXCEPT !.actions[1].schema = InsertParam(@, p)]
    /\ pc' = "extended"
    /\ UNCHANGED <<domain, serviceVars, scoreVars, planVars, agentVars>>

NextExtend == MatchBase \/ MatchExtended

SpecExtend == InitExtend /\ [][NextExtend]_vars

Accepts(c) == \E j \in 1..Len(c.matches) : c.matches[j].action.name = ActionNames[1]

ParamScoreIn(c) ==
    {c.matches[j].param_score : j \in {x \in 1..Len(c.matches) :
                                          c.matches[x].action.name = ActionNames[1]}}

\* the call's effective slots resolve every required parameter of the schema the
\* action had at first (params)
RequiredAllResolved ==
    AllRequiredResolved(domain, EffectiveSlots(calls[1].args.slots), params)

\* the two calls agree on the candidate: accepted or not, and its param_score
SameVerdict ==
    /\ Accepts(calls[1]) = Accepts(calls[2])
    /\ ParamScoreIn(calls[1]) = ParamScoreIn(calls[2])
    /\ ScoreParams(domain, EffectiveSlots(calls[1].args.slots), params).param_score
         = ScoreParams(domain, EffectiveSlots(calls[1].args.slots),
                       kg.actions[1].schema).param_score

\* C31 (as stated): with all required parameters resolved, one more optional
\* parameter that the slots do not resolve changes neither param_score nor whether
\* the candidate is accepted, whatever the schema was.
OptionalMissingNeverMatters == (pc = "extended" /\ RequiredAllResolved) => SameVerdict

\* C31 (as amended): the same for a schema that has at least one parameter; an
\* action without parameters is not gated at all, and becomes gated with
\* param_score 0 once it has a parameter.
OptionalMissingIsSkipped ==
    (pc = "extended" /\ RequiredAllResolved /\ params # <<>>) => SameVerdict

\* reached: an accepted candidate with a scored required parameter, accepted with
\* the same score after an unresolved optional parameter was added
OptionalAddedToScoredSchema ==
    /\ pc = "extended"
    /\ RequiredAllResolved
    /\ \E i \in 1..Len(params) : params[i].required
    /\ Len(calls[2].lookups) > 0
    /\ Accepts(calls[2])
    /\ \E ps \in ParamScoreIn(calls[2]) : RatLt(RatZero, ps)

----------------------------------------------------------------------------
(* SpecRepair: what the three callers of the reasoning service do with its output *)

\* what one request to the reasoning service can come back with: a JSON object of
\* the expected shape, the same inside a Markdown fence, a JSON object of another
\* shape, a JSON array, text that holds no JSON, or an LLMError of the client
Contents == {"json_ok", "fenced_ok", "json_bad", "json_list", "text"}
Answers == Contents \cup {"llm_error"}

MaxFixRetries == 2
DefaultMaxFixRetries == 1

\* LLMClient._parse_json: the parsed value, or the error raised; a fenced or
\* embedded JSON text is extracted, other text raises under strict_json and
\* becomes the object {"_raw": text} otherwise
ParseJson(content, strict_json) ==
    CASE content \in {"json_ok", "fenced_ok"} -> [raised |-> "", obj |-> "ok"]
      [] content = "json_bad" -> [raised |-> "", obj |-> "bad"]
      [] content = "json_list" -> [raised |-> "", obj |-> "list"]
      [] OTHER -> IF strict_json THEN [raised |-> "LLMInvalidJSONError", obj |-> ""]
                  ELSE [raised |-> "", obj |-> "raw"]

\* LLMClient._validate_schema for schema None and for the model IntentParseResult,
\* which forbids extra fields
ValidateSchema(obj, schema) ==
    IF schema = "None" \/ obj = "ok" THEN [raised |-> "", obj |-> obj]
    ELSE [raised |-> "LLMSchemaValidationError", obj |-> ""]

\* LLMClient.json on the answer of the service
LLMJson(answer, schema, strict_json) ==
    IF answer = "llm_error" THEN [raised |-> "LLMError", obj |-> ""]
    ELSE IF ParseJson(answer, strict_json).raised # "" THEN ParseJson(answer, strict_json)
    ELSE ValidateSchema(ParseJson(answer, strict_json).obj, schema)

\* json.loads(resp.content.strip()) in decompose: no extraction from a fence
JsonLoads(answer) ==
    CASE answer = "json_ok" -> [raised |-> "", obj |-> "ok"]
      [] answer = "json_bad" -> [raised |-> "", obj |-> "bad"]
      [] answer = "json_list" -> [raised |-> "", obj |-> "list"]
      [] answer = "llm_error" -> [raised |-> "LLMError", obj |-> ""]
      [] OTHER -> [raised |-> "JSONDecodeError", obj |-> ""]

Request(corrective, answer) == [corrective |-> corrective, answer |-> answer]
CallReturned(value) == [how |-> "returned", value |-> value, error |-> ""]
CallRaised(error) == [how |-> "raised", value |-> "", error |-> error]

FixableErrors == {"LLMSchemaValidationError", "LLMInvalidJSONError"}

InitRepair ==
    /\ pc = "call_ready"
    /\ svc \in [kind : {"parse_intent"}, max_fix_retries : 0..MaxFixRetries,
                strict_json : BOOLEAN]
               \cup [kind : {"decompose", "decide"},
                     max_fix_retries : {DefaultMaxFixRetries}, strict_json : BOOLEAN]
    /\ attempts = <<>>
    /\ outcome = NoOutcome
    /\ domain = DefaultProfile
    /\ ScoreIdle
    /\ kg = NoKg
    /\ calls = <<>>
    /\ PlanIdle
    /\ AgentIdle

\* parse_intent after a request that the client answered with r, fixes being the
\* repair requests made so far: return, raise, or go on to the next repair request
AfterParseRequest(r, fixes) ==
    IF r.raised = "" THEN /\ outcome' = CallReturned(r.obj)
                          /\ pc' = "call_done"
    ELSE IF r.raised \notin FixableErrors THEN /\ outcome' = CallRaised(r.raised)
                                               /\ pc' = "call_done"
    ELSE IF fixes < svc.max_fix_retries THEN /\ outcome' = outcome
                                             /\ pc' = "fixing"
    ELSE /\ outcome' = CallRaised("LLMSchemaValidationError")
         /\ pc' = "call_done"

\* parse_intent up to the answer to its first request
ParseIntent ==
    /\ pc = "call_ready"
    /\ svc.kind = "parse_intent"
    /\ \E a \in Answers :
          /\ attempts' = Append(attempts, Request(FALSE, a))
          /\ AfterParseRequest(LLMJson(a, "IntentParseResult", svc.strict_json), 0)
    /\ UNCHANGED <<domain, svc, scoreVars, matchVars, planVars, agentVars>>

\* one round of parse_intent's repair loop: the messages plus the corrective
\* instruction with the summary of the last error
ParseIntentFix ==
    /\ pc = "fixing"
    /\ \E a \in Answers :
          /\ attempts' = Append(attempts, Request(TRUE, a))
          /\ AfterParseRequest(LLMJson(a, "IntentParseResult", svc.strict_json),
                               Len(attempts))
    /\ UNCHANGED <<domain, svc, scoreVars, matchVars, planVars, agentVars>>

\* LLMDecomposer.decompose: one chat request; every error ends in None
Decompose ==
    /\ pc = "call_ready"
    /\ svc.kind = "decompose"
    /\ \E a \in Answers :
          /\ attempts' = Append(attempts, Request(FALSE, a))
          /\ outcome' = IF JsonLoads(a).raised = "" THEN CallReturned(JsonLoads(a).obj)
                        ELSE CallReturned("None")
    /\ pc' = "call_done"
    /\ UNCHANGED <<domain, svc, scoreVars, matchVars, planVars, agentVars>>

\* the value ScopeGate.decide makes of the object obj: only a dict has get
DecisionOf(r) ==
    IF r.raised # "" \/ r.obj = "list" THEN "allowed_by_default"
    ELSE IF r.obj = "ok" THEN "decision"
    ELSE "refused_no_reason"

\* ScopeGate.decide: one json request without a schema; every error ends in a
\* decision that allows
ScopeDecide ==
    /\ pc = "call_ready"
    /\ svc.kind = "decide"
    /\ \E a \in Answers :
          /\ attempts' = Append(attempts, Request(FALSE, a))
          /\ outcome' = CallReturned(DecisionOf(LLMJson(a, "None", svc.strict_json)))
    /\ pc' = "call_done"
    /\ UNCHANGED <<domain, svc, scoreVars, matchVars, planVars, agentVars>>

NextRepair == ParseIntent \/ ParseIntentFix \/ Decompose \/ ScopeDecide

SpecRepair == InitRepair /\ [][NextRepair]_vars

\* output that is not JSON, or JSON of another shape than the caller asked for
Malformed(answer) == answer \in {"json_bad", "json_list", "text"}

\* C33: a call of sub-intent extraction, decomposition or scope check (with the
\* default number of repair rounds) whose first output is malformed makes exactly
\* one more request, which carries the corrective instruction, and raises when
\* that output is malformed too.
MalformedRepairedOnceThenFatal ==
    (/\ pc = "call_done"
     /\ svc.max_fix_retries = DefaultMaxFixRetries
     /\ Malformed(attempts[1].answer))
    => /\ Len(attempts) = 2
       /\ attempts[2].corrective
       /\ Malformed(attempts[2].answer) => outcome.how = "raised"

----------------------------------------------------------------------------
(* SpecRetry: one chat or embedding call through LLMClient *)

MaxRetries == 2
DefaultTimeout == IntV(60)
DefaultMaxRetries == 2

\* what one invocation of the provider ends with: its response, or an error with
\* one of these messages
ProviderErrors == {"rate limit", "timed out", "overloaded", "invalid request"}
ProviderAnswers == {"ok"} \cup ProviderErrors

\* LLMClient._is_retriable: a keyword of the list occurs in the message
IsRetriable(msg) == msg \in {"rate limit", "timed out", "overloaded"}

\* LLMClient._wrap_provider_exception
WrapProviderException(msg) ==
    CASE msg = "rate limit" -> "LLMRateLimitError"
      [] msg = "timed out" -> "LLMTimeoutError"
      [] msg = "does not support embeddings" -> "LLMEmbeddingNotSupportedError"
      [] OTHER -> "LLMError"

LLMErrors ==
    {"LLMError", "LLMRateLimitError", "LLMTimeoutError", "LLMEmbeddingNotSupportedError"}

\* the ways an embedding can be had: the provider's embed_text, the client's own
\* OpenAI call (with or without an API key), or none
EmbedRoutes == {"provider", "openai", "openai_no_key", "unsupported"}

\* a keyword argument that the caller did not give
Unset == [t |-> "unset", s |-> <<>>, n |-> 0]

\* timeout = kwargs.pop("timeout", self.default_timeout)
TimeoutOf(c) == IF c.timeout_kw = Unset THEN c.default_timeout ELSE c.timeout_kw

Invocation(route, timeout, answer) == [route |-> route, timeout |-> timeout, answer |-> answer]

InitRetry ==
    /\ pc = "llm_call"
    /\ svc \in [kind : {"chat"}, route : {"provider"}, max_retries : -1..MaxRetries,
                default_timeout : {NoneV, DefaultTimeout}, timeout_kw : {Unset, IntV(30)}]
               \cup [kind : {"embed"}, route : EmbedRoutes, max_retries : -1..MaxRetries,
                     default_timeout : {NoneV, DefaultTimeout},
                     timeout_kw : {Unset, IntV(30)}]
    /\ attempts = <<>>
    /\ outcome = NoOutcome
    /\ domain = DefaultProfile
    /\ ScoreIdle
    /\ kg = NoKg
    /\ calls = <<>>
    /\ PlanIdle
    /\ AgentIdle

\* the except clause going round again after every error while attempts are left
AfterErrorRetriesAll(msg, attempt) ==
    IF attempt >= svc.max_retries
    THEN /\ outcome' = CallRaised(WrapProviderException(msg))
         /\ pc' = "llm_done"
    ELSE /\ outcome' = outcome
         /\ pc' = "llm_call"

\* the except clause of the retry loop for an error with message msg in the round
\* numbered attempt: raise the wrapped error, or sleep and go round again
AfterError(msg, attempt) ==
    IF attempt >= svc.max_retries \/ ~IsRetriable(msg)
    THEN /\ outcome' = CallRaised(WrapProviderException(msg))
         /\ pc' = "llm_done"
    ELSE /\ outcome' = outcome
         /\ pc' = "llm_call"

\* one round of the loop that invokes the provider over route
InvokeProvider(route) ==
    \E a \in ProviderAnswers :
        /\ attempts' = Append(attempts, Invocation(route, TimeoutOf(svc), a))
        /\ IF a = "ok" THEN /\ outcome' = CallReturned("response")
                            /\ pc' = "llm_done"
           ELSE AfterError(a, Len(attempts))

\* the loop of a call whose range of attempts is used up without a round having
\* ended it: the raise after the loop
LoopExhausted ==
    /\ attempts' = attempts
    /\ outcome' = CallRaised("LLMError")
    /\ pc' = "llm_done"

\* LLMClient._call_with_retry, one round
CallWithRetry ==
    /\ pc = "llm_call"
    /\ svc.kind = "chat"
    /\ IF Len(attempts) < svc.max_retries + 1 THEN InvokeProvider("provider")
       ELSE LoopExhausted
    /\ UNCHANGED <<domain, svc, scoreVars, matchVars, planVars, agentVars>>

\* LLMClient._embed_with_retry, one round
EmbedWithRetry ==
    /\ pc = "llm_call"
    /\ svc.kind = "embed"
    /\ IF Len(attempts) >= svc.max_retries + 1 THEN LoopExhausted
       ELSE IF svc.route \in {"provider", "openai"} THEN InvokeProvider(svc.route)
       ELSE /\ attempts' = attempts
            /\ AfterError(IF svc.route = "unsupported" THEN "does not support embeddings"
                          ELSE "OPENAI_API_KEY is required", Len(attempts))
    /\ UNCHANGED <<domain, svc, scoreVars, matchVars, planVars, agentVars>>

NextRetry == CallWithRetry \/ EmbedWithRetry

SpecRetry == InitRetry /\ [][NextRetry]_vars

LLMCall == svc.kind \in {"chat", "embed"}
LastAnswer == attempts[Len(attempts)].answer

----------------------------------------------------------------------------
(* SpecBolt: one Neo4jBoltAdapter.read or write *)

\* what a session ends with: the records of the query (none, or some), or an error
SessionRows == {"no_rows", "rows"}
TransientErrors == {"ServiceUnavailable", "SessionExpired"}
SessionErrors == TransientErrors \cup {"Neo4jError", "ValueError"}
SessionAnswers == SessionRows \cup SessionErrors

Session(write, answer) == [write |-> write, answer |-> answer]

InitBolt ==
    /\ pc = "bolt_call"
    /\ svc \in [kind : {"read", "write"}, max_retries : -1..MaxRetries]
    /\ attempts = <<>>
    /\ outcome = NoOutcome
    /\ domain = DefaultProfile
    /\ ScoreIdle
    /\ kg = NoKg
    /\ calls = <<>>
    /\ PlanIdle
    /\ AgentIdle

\* the except clauses going round again after every error while attempts are left
BoltAfterErrorRetriesAll(err, attempt) ==
    IF attempt < svc.max_retries
    THEN /\ outcome' = outcome
         /\ pc' = "bolt_call"
    ELSE /\ outcome' = CallRaised(err)
         /\ pc' = "bolt_done"

\* the except clauses of _run_with_retry for the error err in the round numbered
\* attempt: sleep and go round again, or re-raise
BoltAfterError(err, attempt) ==
    IF err \in TransientErrors /\ attempt < svc.max_retries
    THEN /\ outcome' = outcome
         /\ pc' = "bolt_call"
    ELSE /\ outcome' = CallRaised(err)
         /\ pc' = "bolt_done"

\* _run_with_retry, one round: open a session and run the query in it; with no
\* round left to make, return the empty list
RunWithRetry(write) ==
    IF Len(attempts) < svc.max_retries + 1
    THEN \E a \in SessionAnswers :
            /\ attempts' = Append(attempts, Session(write, a))
            /\ IF a \in SessionRows THEN /\ outcome' = CallReturned(a)
                                         /\ pc' = "bolt_done"
               ELSE BoltAfterError(a, Len(attempts))
    ELSE /\ attempts' = attempts
         /\ outcome' = CallReturned("no_rows")
         /\ pc' = "bolt_done"

BoltRead ==
    /\ pc = "bolt_call"
    /\ svc.kind = "read"
    /\ RunWithRetry(FALSE)
    /\ UNCHANGED <<domain, svc, scoreVars, matchVars, planVars, agentVars>>

BoltWrite ==
    /\ pc = "bolt_call"
    /\ svc.kind = "write"
    /\ RunWithRetry(TRUE)
    /\ UNCHANGED <<domain, svc, scoreVars, matchVars, planVars, agentVars>>

NextBolt == BoltRead \/ BoltWrite

SpecBolt == InitBolt /\ [][NextBolt]_vars

BoltCall == svc.kind \in {"read", "write"}
LastSession == attempts[Len(attempts)].answer

\* C35: a read or write opens at most max_retries + 1 sessions; every session but
\* the last ended in ServiceUnavailable or SessionExpired; the rows of a session
\* that succeeds are returned; a ServiceUnavailable or SessionExpired in the last
\* session allowed is re-raised; any other error, Neo4jError included, is raised
\* from the session it occurs in, with no session after it.
SessionsBoundedTransientRetried ==
    BoltCall =>
      /\ Len(attempts) <= svc.max_retries + 1 \/ attempts = <<>>
      /\ \A i \in 1..Len(attempts) :
            /\ attempts[i].write = (svc.kind = "write")
            /\ i < Len(attempts) => attempts[i].answer \in {"ServiceUnavailable", "SessionExpired"}
      /\ (attempts # <<>> /\ LastSession \in SessionRows)
         => (pc = "bolt_done" /\ outcome = CallReturned(LastSession))
      /\ (attempts # <<>> /\ LastSession \in {"ServiceUnavailable", "SessionExpired"})
         => IF Len(attempts) < svc.max_retries + 1 THEN pc = "bolt_call"
            ELSE pc = "bolt_done" /\ outcome = CallRaised(LastSession)
      /\ (attempts # <<>> /\ LastSession \in {"Neo4jError", "ValueError"})
         => (pc = "bolt_done" /\ outcome = CallRaised(LastSession))
      /\ outcome.how = "raised" => attempts # <<>>

\* reached: a read that got its rows from the last session allowed, after
\* transient errors in all the sessions before
RowsAfterTransientErrors ==
    /\ pc = "bolt_done"
    /\ svc.kind = "read"
    /\ svc.max_retries = MaxRetries
    /\ Len(attempts) = svc.max_retries + 1
    /\ LastSession = "rows"
    /\ outcome = CallReturned("rows")

----------------------------------------------------------------------------
(* Index maintenance on the requests of SpecMatch *)

\* the call numbered i got as far as ensure_action_desc_index, which returned
EnsureReturned(i) == calls[i].fault \notin {"embed", "index"}

\* C36: a request that finds an index of the query's dimensionality issues no
\* DROP and no CREATE; a request that follows one whose
\* ensure_action_desc_index returned, with the index as that one left it, issues
\* none either; and a DROP is issued only for an index of another dimensionality.
IndexMaintenanceIdempotent ==
    \A i \in 1..Len(calls) :
        /\ (calls[i].indexBefore.exists /\ calls[i].indexBefore.dim = EmbedDim)
           => calls[i].ops = <<>>
        /\ (i > 1 /\ EnsureReturned(i - 1) /\ calls[i].indexBefore = calls[i - 1].index)
           => calls[i].ops = <<>>
        /\ (\E j \in 1..Len(calls[i].ops) : calls[i].ops[j] = "DROP")
           => (calls[i].indexBefore.exists /\ calls[i].indexBefore.dim # EmbedDim)

----------------------------------------------------------------------------
(* SpecPlanLive: plan() keeps running once called; the decomposer always answers *)

SpecPlanLive == InitPlan /\ [][NextPlan]_vars /\ WF_vars(NextPlan)

\* the nodes plan() was entered for below the depth ceiling
ExpandedBelowCeiling == {i \in Entered(nodes) : nodes[i].depth < maxDepth}

\* C37: plan() comes to an end whatever finite lists the decomposer returns; at
\* every moment no node is deeper than max_depth, and the decomposer has been
\* called as many times as there are nodes plan() was entered for at a depth
\* below max_depth.
PlanTerminatesWithinDepth ==
    /\ [](\A i \in 1..Len(nodes) : nodes[i].depth <= maxDepth)
    /\ [](Len(dcalls) = Cardinality(ExpandedBelowCeiling))
    /\ <>Finished

\* reached: the end of a plan() with the largest max_depth whose decomposer marked
\* every sub-intent non-atomic at every level, down to the ceiling
NonAtomicAllTheWayDown ==
    /\ Finished
    /\ maxDepth = MaxDepth
    /\ \A i \in 1..Len(nodes) : nodes[i].type # "atomic"
    /\ \A c \in 1..Len(dcalls) :
          /\ ~dcalls[c].answer.failed
          /\ dcalls[c].answer.sub_intents # <<>>
    /\ \E i \in 1..Len(nodes) :
          nodes[i].depth = maxDepth /\ nodes[i].type = "leaf_forced_atomic"
    /\ Len(dcalls) = maxDepth

----------------------------------------------------------------------------
(* The bookkeeping slots of a sub-intent, in plan_intention's match_actions calls *)

\* the slots of a sub-intent for which the extraction supplied none
BookkeepingOnly == NormalizeSlots(EmptyBindings, Norm)

MatchNames(c) == {c.matches[j].action.name : j \in 1..Len(c.matches)}

\* C38: every sub-intent carries _source_text and _normalized_text; the
\* match_actions call for a sub-intent that has no other slots, the fallback
\* sub-intent included, has no effective slots and reads no parameter schema, and
\* when it returns, every row of its search is among the matches, fillable and
\* with param_score 0.
BookkeepingSlotsNeverGate ==
    /\ \A i \in 1..Len(subs) : {KSourceText, KNormalizedText} \subseteq DOMAIN subs[i].slots
    /\ \A i \in 1..Len(calls) :
          /\ calls[i].args.slots = subs[i].slots
          /\ calls[i].args.slots = BookkeepingOnly =>
                /\ DOMAIN EffectiveSlots(calls[i].args.slots) = {}
                /\ calls[i].lookups = <<>>
                /\ ~calls[i].raised =>
                      /\ \A x \in 1..Len(calls[i].rows) :
                            RowName(calls[i].rows[x]) \in MatchNames(calls[i])
                      /\ \A j \in 1..Len(calls[i].matches) :
                            /\ calls[i].matches[j].fillable
                            /\ calls[i].matches[j].param_score = RatZero

\* reached: the call for the fallback sub-intent of a failed extraction returned
\* an action that has a required parameter
FallbackMatchedUngated ==
    /\ Len(calls) >= 1
    /\ parsed = Asked([failed |-> TRUE, candidates |-> <<>>])
    /\ subs[1].raw = "fallback"
    /\ calls[1].args.slots = BookkeepingOnly
    /\ ~calls[1].raised
    /\ \E j \in 1..Len(calls[1].matches) :
          \E x \in 1..Len(GetActionParams(kg, calls[1].matches[j].action.name)) :
              GetActionParams(kg, calls[1].matches[j].action.name)[x].required

====
